---- MODULE Spec2Model ----
(***************************************************************************)
(* A model of the KFCC rates crawler: the two-stage crawl of crawler.py    *)
(* (thread pools, shared statistics), the retry loop of _make_request and  *)
(* the snapshot store of storage.py.                                       *)
(*                                                                         *)
(* The specifications share the module's variables:                       *)
(*   Spec         one run of KFCCCrawler.run()                             *)
(*   SpecRequest  one call of KFCCCrawler._make_request()                  *)
(*   SpecStore    a sequence of StorageManager save operations             *)
(*   SpecBanks    save_bank_list on arbitrary branch lists                 *)
(*   SpecSummary  save_summary over dates on both sides of the cutoff      *)
(*   SpecNames    BankParser._remove_duplicates                            *)
(*   SpecDedup    the three deduplicators                                  *)
(*   SpecRows     parse_product_row on one table row                       *)
(*   SpecBankRows parse_bank_list on one table row                         *)
(*   SpecQuery    the scans of the rates directory                         *)
(*   SpecGrades   one run of collect_grades()                              *)
(*   SpecFetch    fetch_interest_rates on three category responses         *)
(*   SpecRerun    a crawl run over the store an earlier run left           *)
(*   SpecRates    save_daily_rates and cleanup_old_data over some days     *)
(* Each leaves the variables of the others at their initial values.       *)
(***************************************************************************)
EXTENDS Integers, Sequences, FiniteSets, TLC

VARIABLES
    \* ---- crawler.py: KFCCCrawler.run --------------------------------
    pc,             \* position of the main thread in run()
    fut1,           \* stage 1: one future of fetch_bank_list per target
    fut2,           \* stage 2: one future of fetch_interest_rates per bank
    banks_fetched,  \* self.stats['banks_fetched']
    rates_fetched,  \* self.stats['rates_fetched']
    errors,         \* self.stats['errors']
    all_banks,      \* local list of collect_bank_lists_parallel
    all_rates,      \* local list of collect_interest_rates_parallel
    completed,      \* local progress counter of the running stage
    result,         \* what run() returned
    log,            \* what the run has emitted: statistics, closing messages
    exit_code,      \* what main() returns after run_crawler: 0 or 1, -1 before
    \* ---- crawler.py: KFCCCrawler._make_request ----------------------
    rq_pc,          \* "idle" | "attempt" | "returned" | "raised"
    rq_params,      \* the endpoint and parameters of the call
    rq_max,         \* max_retries
    rq_attempt,     \* the loop variable attempt
    rq_log,         \* outcome of each attempt made so far
    rq_sleeps,      \* arguments of the time.sleep calls made so far
    rq_result,      \* the value returned
    \* ---- storage.py: StorageManager --------------------------------
    now,            \* datetime.now(), in days
    bank_list_file, \* the file BANK_LIST_FILE
    rates_dir,      \* data/rates: the file at each path of the directory
    summary_file,   \* data/summary.json
    grades_dir,     \* data/grades: the file of each evaluation period
    backup_dir,     \* data/backups: the set of files in the directory
    calls,          \* number of save operations called so far
    last_op,        \* the last save operation: what it found and did
    \* ---- parser.py / crawler.py: pure functions ---------------------
    name_in,        \* the text passed to BankParser._remove_duplicates
    name_out,       \* what it returned
    dedup_in,       \* the list passed to a deduplicator
    dedup_out,      \* the deduplicator called and what it returned
    \* ---- parser.py: one table row ----------------------------------
    row_in,         \* the cells and product type passed to parse_product_row
    row_out,        \* what it returned
    brow_in,        \* the row of a branch table that parse_bank_list looks at
    brow_out,       \* the strategies tried on it and the record appended
    \* ---- storage.py: data/rates as the scans by name see it ---------
    listing,        \* the names of the files in data/rates
    query_out,      \* the last scan: what it saw and what it returned
    \* ---- grade_crawler.py, main.py: collect_grades ------------------
    g_pc,           \* position of collect_grades()
    g_env,          \* configuration, environment and month of the run
    g_banks,        \* banks_data['banks']
    g_should,       \* what should_collect_grades() returned
    g_fetched,      \* the banks whose future was taken
    g_requests,     \* evaluation requests posted
    g_grades,       \* all_grades, then grades_data
    g_calls0,       \* save operations made before the run
    g_ret,          \* what collect_grades() returned
    g_log,          \* the messages collect_grades printed
    g_last,         \* the last fetch: its bank and the response it received
    \* ---- crawler.py: fetch_interest_rates on one branch --------------
    fr_in,          \* the branch and its three category responses
    fr_out          \* whether the worker raised, and the record it returned

crawlVars == <<pc, fut1, fut2, banks_fetched, rates_fetched, errors,
               all_banks, all_rates, completed, result, log, exit_code>>
reqVars == <<rq_pc, rq_params, rq_max, rq_attempt, rq_log, rq_sleeps, rq_result>>
storeVars == <<now, bank_list_file, rates_dir, summary_file, grades_dir,
               backup_dir, calls, last_op>>
pureVars == <<name_in, name_out, dedup_in, dedup_out>>
rowVars == <<row_in, row_out>>
bankRowVars == <<brow_in, brow_out>>
queryVars == <<listing, query_out>>
gradeVars == <<g_pc, g_env, g_banks, g_should, g_fetched, g_requests, g_grades,
               g_calls0, g_ret, g_log, g_last>>
fetchVars == <<fr_in, fr_out>>
sideVars == <<rowVars, bankRowVars, queryVars, gradeVars, fetchVars>>
vars == <<crawlVars, reqVars, storeVars, pureVars, sideVars>>

----------------------------------------------------------------------------
(* Bounds of the model and configuration values.                           *)

\* number of (city, district) targets of REGIONS
NTargets == 2
Targets == 1..NTargets
\* CRAWLER_CONFIG['max_workers_list'], CRAWLER_CONFIG['max_workers_rate']
max_workers_list == 2
max_workers_rate == 3
\* gmgoCd values the portal may list
BranchCodes == {"10001", "10002"}

RECURSIVE SumSeq(_)
SumSeq(s) == IF s = <<>> THEN 0 ELSE Head(s) + SumSeq(Tail(s))

----------------------------------------------------------------------------
(* crawler.py: the crawl run.                                              *)

\* What _make_request hands to its caller: a response, None, or an
\* exception that is not a RequestException and so leaves the function.
RequestResults == {"response", "None", "raised"}

\* parse_bank_list(response.text, city, district): the branches of the page,
\* each tagged with the target it was listed under. A page lists no branch or
\* one branch; the page of the first target may also list two.
Bank(c, t) == [gmgoCd |-> c, city |-> t]
BankPages(t) == {<<>>} \cup {<<Bank(c, t)>> : c \in BranchCodes}
                \cup (IF t = 1 THEN {<<Bank("10001", t), Bank("10002", t)>>} ELSE {})

NoResult == [returned |-> FALSE, banks |-> <<>>, rates |-> <<>>]
Returned(b, r) == [returned |-> TRUE, banks |-> b, rates |-> r]

NoFuture == [st |-> "none", outcome |-> "-", old |-> 0, banks |-> <<>>]
Queued == [st |-> "queued", outcome |-> "-", old |-> 0, banks |-> <<>>]
Finished(o, b) == [st |-> "done", outcome |-> o, old |-> 0, banks |-> b]

Running(f) == Cardinality({k \in DOMAIN f : f[k].st = "adding"})

InitCrawl ==
    /\ pc = "init"
    /\ fut1 = [t \in Targets |-> NoFuture]
    /\ fut2 = <<>>
    /\ banks_fetched = 0
    /\ rates_fetched = 0
    /\ errors = <<>>
    /\ all_banks = <<>>
    /\ all_rates = <<>>
    /\ completed = 0
    /\ result = NoResult
    /\ log = <<>>
    /\ exit_code = -1

InitRequest ==
    /\ rq_pc = "idle"
    /\ rq_params = "-"
    /\ rq_max = 0
    /\ rq_attempt = 0
    /\ rq_log = <<>>
    /\ rq_sleeps = <<>>
    /\ rq_result = [kind |-> "-"]

\* run() up to the submission of every target to the stage-1 pool.
run ==
    /\ pc = "init"
    /\ pc' = "stage1"
    /\ fut1' = [t \in Targets |-> Queued]
    /\ UNCHANGED <<fut2, banks_fetched, rates_fetched, errors, all_banks,
                   all_rates, completed, result>>
    /\ UNCHANGED <<log, exit_code, reqVars, storeVars, pureVars, sideVars>>

\* A pool thread runs fetch_bank_list(city, district) up to the load of
\* stats['banks_fetched'] of the += statement: the request, the parse, and
\* the read of the counter (the old value is on the stack while len(banks)
\* is called).
fetch_bank_list(t) ==
    /\ fut1[t].st = "queued"
    /\ Running(fut1) < max_workers_list
    /\ \E r \in RequestResults :
         \/ /\ r = "raised"
            /\ fut1' = [fut1 EXCEPT ![t] = Finished("raised", <<>>)]
            /\ UNCHANGED errors
         \/ /\ r = "None"
            /\ fut1' = [fut1 EXCEPT ![t] = Finished("no_response", <<>>)]
            /\ UNCHANGED errors
         \/ /\ r = "response"
            /\ \/ \* parse_bank_list raises: the except clause of the worker
                  /\ errors' = Append(errors, [target |-> t, bank |-> "",
                                               cause |-> "parse"])
                  /\ fut1' = [fut1 EXCEPT ![t] = Finished("parse_error", <<>>)]
               \/ \E page \in BankPages(t) :
                    /\ fut1' = [fut1 EXCEPT ![t] =
                                  [st |-> "adding", outcome |-> "banks",
                                   old |-> banks_fetched, banks |-> page]]
                    /\ UNCHANGED errors
    /\ UNCHANGED <<pc, fut2, banks_fetched, rates_fetched, all_banks,
                   all_rates, completed, result>>
    /\ UNCHANGED <<log, exit_code, reqVars, storeVars, pureVars, sideVars>>

\* The store of the += statement and the return of the branch list.
fetch_bank_list_store(t) ==
    /\ fut1[t].st = "adding"
    /\ banks_fetched' = fut1[t].old + Len(fut1[t].banks)
    /\ fut1' = [fut1 EXCEPT ![t] = Finished("banks", fut1[t].banks)]
    /\ UNCHANGED <<pc, fut2, rates_fetched, errors, all_banks, all_rates,
                   completed, result>>
    /\ UNCHANGED <<log, exit_code, reqVars, storeVars, pureVars, sideVars>>

\* A loop whose try statement has no handler for what future.result() raises.
NoHandler(outcome) == FALSE

\* `except Exception as e` around future.result() in the as_completed loops:
\* it catches whatever the worker raised.
ExceptException(outcome) == outcome = "raised"

\* One iteration of the as_completed loop of collect_bank_lists_parallel, in
\* the main thread, for the finished future of target t. An exception the
\* loop does not catch leaves the stage and is caught by run(), which
\* returns ([], []).
collect_bank_lists_parallel(t) ==
    /\ pc = "stage1"
    /\ fut1[t].st = "done"
    /\ fut1' = [fut1 EXCEPT ![t].st = "taken"]
    /\ IF fut1[t].outcome = "raised"
       THEN IF ExceptException(fut1[t].outcome)
            THEN /\ errors' = Append(errors, [target |-> t, bank |-> "",
                                              cause |-> "exception"])
                 /\ UNCHANGED <<pc, all_banks, completed, result>>
            ELSE /\ pc' = "done"
                 /\ result' = Returned(<<>>, <<>>)
                 /\ UNCHANGED <<errors, all_banks, completed>>
       ELSE /\ all_banks' = all_banks \o fut1[t].banks
            /\ completed' = completed + 1
            /\ UNCHANGED <<pc, errors, result>>
    /\ UNCHANGED <<fut2, banks_fetched, rates_fetched, all_rates>>
    /\ UNCHANGED <<log, exit_code, reqVars, storeVars, pureVars, sideVars>>

\* A loop that stops at the first future yielded, with no join of the pool.
FirstFutureTaken(f) == \E t \in DOMAIN f : f[t].st = "taken"

\* The as_completed loop ends when every future was yielded, and the with
\* block of the executor then joins the pool (shutdown(wait=True)).
Stage1Joined(f) == \A t \in DOMAIN f : f[t].st = "taken"
\* A stage-2 loop that returns once one future was yielded.
SomeRateFutureTaken(f) == \E i \in DOMAIN f : f[i].st = "taken"

Stage2Joined(f) == \A i \in DOMAIN f : f[i].st = "taken"

\* A run that gives up unless stage 1 found two branches or more.
FewerThanTwo(banks) == Len(banks) < 2

\* run(): `if not banks: return [], []`.
Stage1Failed(banks) == banks = <<>>

\* collect_bank_lists_parallel returns and run() tests its result: either the
\* run ends with ([], []) or every branch of the list is submitted to the
\* stage-2 pool.
run_stage1_done ==
    /\ pc = "stage1"
    /\ Stage1Joined(fut1)
    /\ IF Stage1Failed(all_banks)
       THEN /\ pc' = "done"
            /\ result' = Returned(<<>>, <<>>)
            /\ UNCHANGED <<fut2, completed>>
       ELSE /\ pc' = "stage2"
            /\ fut2' = [i \in 1..Len(all_banks) |-> Queued]
            /\ completed' = 0
            /\ UNCHANGED result
    /\ UNCHANGED <<fut1, banks_fetched, rates_fetched, errors, all_banks,
                   all_rates>>
    /\ UNCHANGED <<log, exit_code, reqVars, storeVars, pureVars, sideVars>>

\* The three product types of fetch_interest_rates, requested in this order.
product_types == <<"12", "13", "14">>

\* What one product-type request of a branch comes to: the request leaves
\* _make_request by an exception, fails (None), or its page parses to a list
\* of products (parse_interest_rates returns [] on its own parse errors).
RatePages == {<<"None", "None", "None">>,
              <<"products", "None", "empty">>,
              <<"empty", "products", "raised">>,
              <<"empty", "empty", "empty">>}

ProductsOfPage(k, r) ==
    IF r = "products"
    THEN <<[product_name |-> "MG", duration_months |-> IF k = 1 THEN 0 ELSE 12,
            interest_rate |-> 3, product_type |-> product_types[k]]>>
    ELSE <<>>

\* The index of the request that raises, 0 when none does.
FirstRaised(page) ==
    IF \E k \in 1..3 : page[k] = "raised"
    THEN CHOOSE k \in 1..3 : page[k] = "raised" /\ \A j \in 1..(k-1) : page[j] # "raised"
    ELSE 0

\* A deduplicator that returns its input.
KeepEveryProduct(products) == products

\* key = (product_name, duration_months, interest_rate, product_type)
ProductKey(product) ==
    <<product.product_name, product.duration_months, product.interest_rate,
      product.product_type>>

\* _remove_duplicate_products: `if key not in seen`, in the order of the list.
RECURSIVE _remove_duplicate_products(_)
_remove_duplicate_products(products) ==
    IF products = <<>> THEN <<>>
    ELSE LET front == _remove_duplicate_products(SubSeq(products, 1, Len(products) - 1))
             last == products[Len(products)]
         IN IF \E j \in 1..Len(front) : ProductKey(front[j]) = ProductKey(last)
            THEN front
            ELSE Append(front, last)

\* A pool thread runs fetch_interest_rates(bank) for the i-th branch of the
\* list, up to the load of stats['rates_fetched'] of the += statement.
fetch_interest_rates(i) ==
    /\ i \in DOMAIN fut2
    /\ fut2[i].st = "queued"
    /\ Running(fut2) < max_workers_rate
    /\ \E page \in RatePages :
         LET raised == FirstRaised(page)
             all_products == ProductsOfPage(1, page[1]) \o ProductsOfPage(2, page[2])
                             \o ProductsOfPage(3, page[3])
             unique_products == _remove_duplicate_products(all_products)
         IN IF raised # 0
            THEN fut2' = [fut2 EXCEPT ![i] = Finished("raised", <<>>)]
            ELSE IF unique_products # <<>>
            THEN fut2' = [fut2 EXCEPT ![i] =
                            [st |-> "adding", outcome |-> "rates",
                             old |-> rates_fetched,
                             banks |-> <<[bank |-> all_banks[i],
                                          total_products |-> Len(unique_products)]>>]]
            ELSE fut2' = [fut2 EXCEPT ![i] = Finished("None", <<>>)]
    /\ UNCHANGED <<pc, fut1, banks_fetched, rates_fetched, errors, all_banks,
                   all_rates, completed, result>>
    /\ UNCHANGED <<log, exit_code, reqVars, storeVars, pureVars, sideVars>>

\* The store of `self.stats['rates_fetched'] += 1` and the return of the record.
fetch_interest_rates_store(i) ==
    /\ i \in DOMAIN fut2
    /\ fut2[i].st = "adding"
    /\ rates_fetched' = fut2[i].old + 1
    /\ fut2' = [fut2 EXCEPT ![i] = Finished("rates", fut2[i].banks)]
    /\ UNCHANGED <<pc, fut1, banks_fetched, errors, all_banks, all_rates,
                   completed, result>>
    /\ UNCHANGED <<log, exit_code, reqVars, storeVars, pureVars, sideVars>>

\* One iteration of the as_completed loop of collect_interest_rates_parallel.
collect_interest_rates_parallel(i) ==
    /\ pc = "stage2"
    /\ i \in DOMAIN fut2
    /\ fut2[i].st = "done"
    /\ fut2' = [fut2 EXCEPT ![i].st = "taken"]
    /\ IF fut2[i].outcome = "raised"
       THEN IF ExceptException(fut2[i].outcome)
            THEN /\ errors' = Append(errors, [target |-> 0, bank |-> all_banks[i].gmgoCd,
                                              cause |-> "exception"])
                 /\ UNCHANGED <<pc, all_rates, completed, result>>
            ELSE /\ pc' = "done"
                 /\ result' = Returned(<<>>, <<>>)
                 /\ UNCHANGED <<errors, all_rates, completed>>
       ELSE /\ all_rates' = all_rates \o fut2[i].banks
            /\ completed' = completed + 1
            /\ UNCHANGED <<pc, errors, result>>
    /\ UNCHANGED <<fut1, banks_fetched, rates_fetched, all_banks>>
    /\ UNCHANGED <<log, exit_code, reqVars, storeVars, pureVars, sideVars>>

\* `for error in self.stats['errors'][:10]`
ErrorsShown == 10

\* _print_statistics: the counters, the number of errors and the first
\* ErrorsShown entries of the error list.
_print_statistics ==
    [kind |-> "statistics", banks |-> banks_fetched, rates |-> rates_fetched,
     n_errors |-> Len(errors),
     shown |-> SubSeq(errors, 1, IF Len(errors) > ErrorsShown THEN ErrorsShown
                                 ELSE Len(errors))]

\* collect_interest_rates_parallel returns; run() prints the statistics and
\* returns (banks, rates).
run_stage2_done ==
    /\ pc = "stage2"
    /\ Stage2Joined(fut2)
    /\ pc' = "done"
    /\ result' = Returned(all_banks, all_rates)
    /\ log' = Append(log, _print_statistics)
    /\ UNCHANGED <<fut1, fut2, banks_fetched, rates_fetched, errors, all_banks,
                   all_rates, completed>>
    /\ UNCHANGED <<exit_code, reqVars, storeVars, pureVars, sideVars>>

----------------------------------------------------------------------------
(* crawler.py: _make_request.                                              *)

\* max_retries values tried
MaxRetries == 3
\* CRAWLER_CONFIG['retry_delay'], in seconds
retry_delay == 2
\* the two endpoints the crawler calls
RequestParams == {"bank_list", "interest_rates"}
\* Status codes of the response session.get returns once redirects are
\* followed.
StatusCodes == {200, 204, 304, 404, 503}
\* One attempt: session.get returns a response with a status code, raises a
\* RequestException (connection error, timeout), or raises something else.
AttemptOutcomes ==
    {[kind |-> "response", status |-> c] : c \in StatusCodes}
    \cup {[kind |-> "RequestException", status |-> 0],
          [kind |-> "Exception", status |-> 0]}

\* Response.raise_for_status(): HTTPError (a RequestException) for 4xx and 5xx.
raise_for_status(status) == 400 <= status /\ status < 600

\* A handler that catches the HTTPError of raise_for_status only.
CatchesHTTPErrorOnly(o) == o.kind = "response" /\ raise_for_status(o.status)

\* A retry loop that sleeps the same delay before every retry.
ConstantDelay(attempt) == retry_delay

\* time.sleep(CRAWLER_CONFIG['retry_delay'] * (attempt + 1))
SleepBeforeRetry(attempt) == retry_delay * (attempt + 1)

\* The except clause of _make_request: what the handler catches.
CaughtByHandler(o) ==
    \/ o.kind = "RequestException"
    \/ o.kind = "response" /\ raise_for_status(o.status)

None == [kind |-> "None"]

\* A caller enters _make_request(url, params, max_retries); with
\* max_retries = 0 the loop body never runs and line 89 returns None.
_make_request(params, max_retries) ==
    /\ rq_pc = "idle"
    /\ rq_params' = params
    /\ rq_max' = max_retries
    /\ rq_attempt' = 0
    /\ IF max_retries = 0
       THEN rq_pc' = "returned" /\ rq_result' = None
       ELSE rq_pc' = "attempt" /\ UNCHANGED rq_result
    /\ UNCHANGED <<rq_log, rq_sleeps>>
    /\ UNCHANGED <<crawlVars, storeVars, pureVars, sideVars>>

\* One iteration of `for attempt in range(max_retries)`.
_make_request_attempt(o) ==
    /\ rq_pc = "attempt"
    /\ rq_log' = Append(rq_log, o)
    /\ IF CaughtByHandler(o)
       THEN IF rq_attempt < rq_max - 1
            THEN /\ rq_sleeps' = Append(rq_sleeps, SleepBeforeRetry(rq_attempt))
                 /\ rq_attempt' = rq_attempt + 1
                 /\ UNCHANGED <<rq_pc, rq_result>>
            ELSE /\ rq_pc' = "returned"
                 /\ rq_result' = None
                 /\ UNCHANGED <<rq_attempt, rq_sleeps>>
       ELSE IF o.kind = "response"
            THEN /\ rq_pc' = "returned"
                 /\ rq_result' = o
                 /\ UNCHANGED <<rq_attempt, rq_sleeps>>
            ELSE /\ rq_pc' = "raised"
                 /\ UNCHANGED <<rq_result, rq_attempt, rq_sleeps>>
    /\ UNCHANGED <<rq_params, rq_max>>
    /\ UNCHANGED <<crawlVars, storeVars, pureVars, sideVars>>

NextRequest ==
    \/ \E p \in RequestParams, m \in 0..MaxRetries : _make_request(p, m)
    \/ \E o \in AttemptOutcomes : _make_request_attempt(o)

----------------------------------------------------------------------------
(* storage.py: the snapshot store.                                         *)

\* save operations in one behaviour
MaxCalls == 2
\* the clock runs from day 0 to day MaxClock, in steps of ClockSteps days
MaxClock == 8
ClockSteps == {4}
\* _cleanup_old_backups(days_to_keep=7)
days_to_keep == 7
\* dates a snapshot is saved for, and the two suffixes of a snapshot file
Dates == {d \in 0..MaxClock : d % 4 = 0}
Exts == {"json", "json.gz"}
RatePaths == [date : Dates, ext : Exts]
\* evaluation periods (year and month) of grade files
Periods == {1, 2}
\* len(rates) of the lists passed to save_daily_rates
RateCounts == {0, 100, 101}
\* lengths of the branch lists passed to save_bank_list
MaxBanks == 3
StoreCodes == BranchCodes \cup {""}

\* What happens to one save: the copy of the backup succeeds or raises; the
\* write succeeds, raises before the target is truncated, raises in
\* json.dump, after open(filepath, 'w') truncated it, or the process is
\* interrupted (signal, KeyboardInterrupt) while json.dump is writing.
IOOutcomes == [copy : {"ok", "fails"},
               write : {"ok", "open_fails", "dump_fails", "interrupted"}]
NoFault == [copy |-> "ok", write |-> "ok"]

\* A file's content. Every kind of file is a record of the same fields.
NoDoc == [kind |-> "none", date |-> 0, banks |-> <<>>, n |-> 0, v |-> 0,
          entries |-> {}, crawled_at |-> -1, version |-> "-"]
PartialDoc == [NoDoc EXCEPT !.kind = "partial"]
NoFile == [exists |-> FALSE, doc |-> NoDoc, mtime |-> 0]
FileOf(doc, t) == [exists |-> TRUE, doc |-> doc, mtime |-> t]

NoOp == [op |-> "-", ok |-> FALSE, overwrote |-> FALSE, prior |-> NoDoc,
         date |-> 0, dup_input |-> FALSE, io |-> NoFault, copied |-> FALSE,
         copy_failed |-> FALSE]

InitStore ==
    /\ now = 0
    /\ bank_list_file = NoFile
    /\ rates_dir = [p \in RatePaths |-> NoFile]
    /\ summary_file = NoFile
    /\ grades_dir = [p \in Periods |-> NoFile]
    /\ backup_dir = {}
    /\ calls = 0
    /\ last_op = NoOp

\* Time passes between two operations.
tick(d) ==
    /\ now + d <= MaxClock
    /\ now' = now + d
    /\ UNCHANGED <<bank_list_file, rates_dir, summary_file, grades_dir,
                   backup_dir, calls, last_op>>
    /\ UNCHANGED <<crawlVars, reqVars, pureVars, sideVars>>

\* save_json(data, filepath): the file at the path afterwards.
save_json(data, file, write, t) ==
    CASE write = "ok" -> FileOf(data, t)
      [] write = "open_fails" -> file
      [] write = "dump_fails" -> FileOf(PartialDoc, t)
      [] write = "interrupted" -> FileOf(PartialDoc, t)

\* Whether the write touched the target (open(filepath, 'w') truncates it).
Opened(write) == write # "open_fails"

\* A cleanup that unlinks nothing.
KeepEveryBackup(bdir, t) == bdir

\* _cleanup_old_backups: unlink every file whose st_mtime is before the cutoff.
_cleanup_old_backups(bdir, t) == {b \in bdir : ~(b.mtime < t - days_to_keep)}

\* _create_backup(filepath): the backup directory afterwards. The copy is
\* named <stem>_<timestamp><suffix>, replaces a file of that name, and, made
\* by shutil.copy2, carries the modification time of the source.
_create_backup(file, src, date, bdir, t, copy) ==
    IF ~file.exists THEN bdir
    ELSE IF copy = "fails" THEN bdir
    ELSE LET entry == [src |-> src, date |-> date, timestamp |-> t,
                       doc |-> file.doc, mtime |-> file.mtime]
             others == {b \in bdir : ~(b.src = src /\ b.date = date /\ b.timestamp = t)}
         IN _cleanup_old_backups(others \cup {entry}, t)

\* _remove_duplicate_banks without the `key not in seen` test.
KeepEveryKeyedBank(banks) == SelectSeq(banks, LAMBDA b : b.gmgoCd # "")

\* _remove_duplicate_banks: the first bank of each non-empty code, in order.
RECURSIVE _remove_duplicate_banks(_)
_remove_duplicate_banks(banks) ==
    IF banks = <<>> THEN <<>>
    ELSE LET front == _remove_duplicate_banks(SubSeq(banks, 1, Len(banks) - 1))
             bank == banks[Len(banks)]
         IN IF bank.gmgoCd # "" /\ ~(\E j \in 1..Len(front) : front[j].gmgoCd = bank.gmgoCd)
            THEN Append(front, bank)
            ELSE front

HasDuplicateCode(banks) ==
    \E i, j \in 1..Len(banks) : i # j /\ banks[i].gmgoCd = banks[j].gmgoCd

save_bank_list(banks, io) ==
    /\ calls' = calls + 1
    /\ IF banks = <<>>
       THEN /\ last_op' = [NoOp EXCEPT !.op = "save_bank_list"]
            /\ UNCHANGED <<bank_list_file, backup_dir>>
       ELSE LET unique_banks == _remove_duplicate_banks(banks)
                bank_data == [NoDoc EXCEPT !.kind = "banks",
                                           !.banks = unique_banks,
                                           !.n = Len(unique_banks),
                                           !.crawled_at = now,
                                           !.version = "1.1"]
            IN /\ backup_dir' = _create_backup(bank_list_file, "banks", 0,
                                               backup_dir, now, io.copy)
               /\ bank_list_file' = save_json(bank_data, bank_list_file, io.write, now)
               /\ last_op' = [op |-> "save_bank_list", ok |-> io.write = "ok",
                              overwrote |-> bank_list_file.exists /\ Opened(io.write),
                              prior |-> bank_list_file.doc,
                              date |-> 0,
                              dup_input |-> HasDuplicateCode(banks), io |-> io,
                              copied |-> bank_list_file.exists /\ io.copy = "ok",
                              copy_failed |-> bank_list_file.exists /\ io.copy = "fails"]
    /\ UNCHANGED <<now, rates_dir, summary_file, grades_dir>>
    /\ UNCHANGED <<crawlVars, reqVars, pureVars, sideVars>>

save_daily_rates(rates, date_str, io) ==
    /\ calls' = calls + 1
    /\ IF rates.n = 0
       THEN /\ last_op' = [NoOp EXCEPT !.op = "save_daily_rates"]
            /\ UNCHANGED <<rates_dir, backup_dir>>
       ELSE LET filepath == [date |-> date_str, ext |-> "json"]
                rates_data == [NoDoc EXCEPT !.kind = "rates", !.date = date_str,
                                            !.n = rates.n, !.v = rates.v,
                                            !.crawled_at = now, !.version = "1.1"]
                compress == rates.n > 100
                target == IF compress THEN [date |-> date_str, ext |-> "json.gz"]
                          ELSE filepath
            IN /\ backup_dir' = _create_backup(rates_dir[filepath], "rates", date_str,
                                               backup_dir, now, io.copy)
               /\ rates_dir' = [rates_dir EXCEPT ![target] =
                                  save_json(rates_data, rates_dir[target], io.write, now)]
               /\ last_op' = [op |-> "save_daily_rates", ok |-> io.write = "ok",
                              overwrote |-> rates_dir[target].exists /\ Opened(io.write),
                              prior |-> rates_dir[target].doc,
                              date |-> date_str,
                              dup_input |-> FALSE, io |-> io,
                              copied |-> rates_dir[filepath].exists /\ io.copy = "ok",
                              copy_failed |-> rates_dir[filepath].exists
                                              /\ io.copy = "fails"]
    /\ UNCHANGED <<now, bank_list_file, summary_file, grades_dir>>
    /\ UNCHANGED <<crawlVars, reqVars, pureVars, sideVars>>

\* load_json(filepath): the plain path is read when it exists, else the
\* .json.gz path beside it; a missing or unparsable file loads as None.
load_json(file, gzfile) ==
    LET f == IF ~file.exists /\ gzfile.exists THEN gzfile ELSE file
    IN IF f.exists /\ f.doc.kind # "partial" THEN f.doc ELSE NoDoc

\* get_rates_by_date(date_str) = load_json(rates_dir / f"{date_str}.json")
get_rates_by_date(date_str) ==
    load_json(rates_dir[[date |-> date_str, ext |-> "json"]],
              rates_dir[[date |-> date_str, ext |-> "json.gz"]])

\* load_json(summary_file) or {}: a missing or unreadable file loads as None.
LoadedEntries(file) ==
    IF file.exists /\ file.doc.kind = "summary" THEN file.doc.entries ELSE {}

\* save_summary keeps the entries of the last 90 days
summary_days == 90

\* A summary that is never pruned.
KeepEveryEntry(date, t) == TRUE

\* datetime.strptime(date, '%Y-%m-%d') >= datetime.now() - timedelta(days=90):
\* the date is a midnight and now is not, so a date exactly 90 days back is
\* before the cutoff.
InSummaryWindow(date, t) == date > t - summary_days

save_summary(summary_data, date_str, io) ==
    /\ calls' = calls + 1
    /\ LET existing_summary == LoadedEntries(summary_file)
           merged == {e \in existing_summary : e.date # date_str}
                     \cup {[date |-> date_str, v |-> summary_data]}
           kept == {e \in merged : InSummaryWindow(e.date, now)}
           doc == [NoDoc EXCEPT !.kind = "summary", !.entries = kept]
       IN /\ summary_file' = save_json(doc, summary_file, io.write, now)
          /\ last_op' = [op |-> "save_summary", ok |-> io.write = "ok",
                         overwrote |-> summary_file.exists /\ Opened(io.write),
                         prior |-> summary_file.doc,
                         date |-> date_str, dup_input |-> FALSE, io |-> io, copied |-> FALSE,
                         copy_failed |-> FALSE]
    /\ UNCHANGED <<now, bank_list_file, rates_dir, grades_dir, backup_dir>>
    /\ UNCHANGED <<crawlVars, reqVars, pureVars, sideVars>>

\* The evaluation period datetime.now() falls in.
CurrentPeriod(t) == 1

\* save_grades(grades_data): grades_data is the list's length, the period of
\* its first record and its content.
save_grades(grades_data, io) ==
    /\ calls' = calls + 1
    /\ LET period == IF grades_data.n > 0 THEN grades_data.period
                     ELSE CurrentPeriod(now)
           data == [NoDoc EXCEPT !.kind = "grades", !.date = period,
                                 !.n = grades_data.n, !.v = grades_data.v,
                                 !.crawled_at = now]
       IN /\ grades_dir' = [grades_dir EXCEPT ![period] =
                              save_json(data, grades_dir[period], io.write, now)]
          /\ last_op' = [op |-> "save_grades", ok |-> io.write = "ok",
                         overwrote |-> grades_dir[period].exists /\ Opened(io.write),
                         prior |-> grades_dir[period].doc,
                         date |-> period, dup_input |-> FALSE, io |-> io, copied |-> FALSE,
                         copy_failed |-> FALSE]
    /\ UNCHANGED <<now, bank_list_file, rates_dir, summary_file, backup_dir>>
    /\ UNCHANGED <<crawlVars, reqVars, pureVars, sideVars>>

\* The branch lists the store specification saves.
StoreBankLists == {<<>>, <<Bank("10001", 1)>>, <<Bank("10002", 1), Bank("10002", 2)>>}

RECURSIVE SeqsUpTo(_, _)
SeqsUpTo(S, n) ==
    IF n = 0 THEN {<<>>}
    ELSE LET shorter == SeqsUpTo(S, n - 1)
         IN shorter \cup {Append(q, x) : q \in {r \in shorter : Len(r) = n - 1}, x \in S}

\* Every branch list of at most MaxBanks branches, each listed under the first
\* or the second target.
BankLists == SeqsUpTo({Bank(c, t) : c \in StoreCodes, t \in {1, 2}}, MaxBanks)

NextStore ==
    \/ \E d \in ClockSteps : tick(d)
    \/ \E banks \in StoreBankLists, io \in IOOutcomes :
         calls < MaxCalls /\ save_bank_list(banks, io)
    \/ \E n \in RateCounts, d \in Dates, io \in IOOutcomes :
         calls < MaxCalls /\ save_daily_rates([n |-> n, v |-> calls + 1], d, io)
    \/ \E d \in Dates, io \in IOOutcomes :
         calls < MaxCalls /\ save_summary(calls + 1, d, io)
    \/ \E n \in {0, 1}, p \in Periods, io \in IOOutcomes :
         calls < MaxCalls /\ save_grades([n |-> n, period |-> p, v |-> calls + 1], io)

\* The dates save_summary is called for: the dates of the clock and dates
\* two days before and two days after the cutoff of each.
SummaryDates ==
    Dates \cup {d - summary_days - 2 : d \in Dates}
          \cup {d - summary_days + 2 : d \in Dates}

NextSummary ==
    \/ \E d \in ClockSteps : tick(d)
    \/ \E d \in SummaryDates, write \in {"ok", "open_fails", "dump_fails"} :
         calls <= MaxCalls /\ save_summary(calls + 1, d, [copy |-> "ok", write |-> write])

NextBanks ==
    \/ \E banks \in BankLists : calls < MaxCalls /\ save_bank_list(banks, NoFault)

----------------------------------------------------------------------------
(* main.py: run_crawler, after crawler.run() has returned.                 *)

\* What the file system does to the saves of a crawl run.
CrawlFaults == {NoFault, [copy |-> "ok", write |-> "dump_fails"]}

\* A run_crawler that goes on to save and to clean up whatever run() returned.
NoEarlyReturn ==
    /\ pc = "done"
    /\ result.returned

\* run_crawler calls save_all(banks, rates) unless both lists are empty.
SaveAllCalled ==
    /\ pc = "done"
    /\ result.returned
    /\ ~(result.banks = <<>> /\ result.rates = <<>>)

\* The saves save_all has to make: the branch list when it is not empty, and
\* for a non-empty rate list the daily snapshot and the summary.
SavesDue == (IF result.banks = <<>> THEN 0 ELSE 1) + (IF result.rates = <<>> THEN 0 ELSE 2)

\* save_all(banks, rates), one save per step, in the main thread; calls counts
\* the saves made so far.
save_all(io) ==
    /\ SaveAllCalled
    /\ \/ /\ calls = 0
          /\ result.banks # <<>>
          /\ save_bank_list(result.banks, io)
       \/ /\ calls = 1
          /\ result.rates # <<>>
          /\ save_daily_rates([n |-> Len(result.rates), v |-> 1], now, io)
       \/ /\ calls = 2
          /\ result.rates # <<>>
          /\ save_summary(1, now, io)

\* print_summary(banks, rates, start_time) of main.py
print_summary ==
    [kind |-> "summary", banks |-> Len(result.banks), rates |-> Len(result.rates),
     n_errors |-> 0, shown |-> <<>>]

\* The message of run_crawler when run() returned ([], []).
CrawlFailed ==
    [kind |-> "failed", banks |-> 0, rates |-> 0, n_errors |-> 0, shown |-> <<>>]

\* The --cleanup argument of main(): None (0) or a number of days.
CleanupOptions == {0, 3}

\* cleanup_old_data(days_to_keep) on the rates directory: every snapshot
\* whose date is before now - days is unlinked (the date is a midnight).
cleanup_rates_dir(dir, t, days) ==
    [p \in DOMAIN dir |-> IF dir[p].exists /\ p.date <= t - days THEN NoFile ELSE dir[p]]

\* run_crawler(cleanup_days) returns: False after the failure message when
\* run() returned two empty lists; True after save_all, the cleanup when
\* cleanup_days is set, and print_summary otherwise, whatever save_all
\* returned. main() returns 0 for True and 1 for False.
run_crawler(cleanup_days) ==
    /\ pc = "done"
    /\ pc' = "exit"
    /\ IF SaveAllCalled
       THEN /\ calls = SavesDue
            /\ rates_dir' = IF cleanup_days # 0
                            THEN cleanup_rates_dir(rates_dir, now, cleanup_days)
                            ELSE rates_dir
            /\ log' = Append(log, print_summary)
            /\ exit_code' = 0
       ELSE /\ log' = Append(log, CrawlFailed)
            /\ exit_code' = 1
            /\ UNCHANGED rates_dir
    /\ UNCHANGED <<fut1, fut2, banks_fetched, rates_fetched, errors, all_banks,
                   all_rates, completed, result>>
    /\ UNCHANGED <<now, bank_list_file, summary_file, grades_dir, backup_dir, calls,
                   last_op>>
    /\ UNCHANGED <<reqVars, pureVars, sideVars>>

NextCrawl ==
    \/ run
    \/ \E t \in Targets : fetch_bank_list(t)
    \/ \E t \in Targets : fetch_bank_list_store(t)
    \/ \E t \in Targets : collect_bank_lists_parallel(t)
    \/ run_stage1_done
    \/ \E i \in DOMAIN fut2 : fetch_interest_rates(i)
    \/ \E i \in DOMAIN fut2 : fetch_interest_rates_store(i)
    \/ \E i \in DOMAIN fut2 : collect_interest_rates_parallel(i)
    \/ run_stage2_done
    \/ \E io \in CrawlFaults : save_all(io)
    \/ \E cleanup_days \in CleanupOptions : run_crawler(cleanup_days)

\* What save_all of an earlier run left in the store: the branch list, the
\* snapshot of the day and the summary.
earlier_snapshot ==
    /\ pc = "init"
    /\ ~bank_list_file.exists
    /\ bank_list_file' = FileOf([NoDoc EXCEPT !.kind = "banks",
                                              !.banks = <<Bank("10001", 1)>>, !.n = 1,
                                              !.crawled_at = now, !.version = "1.1"], now)
    /\ rates_dir' = [rates_dir EXCEPT ![[date |-> now, ext |-> "json"]] =
                        FileOf([NoDoc EXCEPT !.kind = "rates", !.date = now, !.n = 1,
                                             !.v = 1, !.crawled_at = now,
                                             !.version = "1.1"], now)]
    /\ summary_file' = FileOf([NoDoc EXCEPT !.kind = "summary",
                                            !.entries = {[date |-> now, v |-> 1]}], now)
    /\ UNCHANGED <<now, grades_dir, backup_dir, calls, last_op>>
    /\ UNCHANGED <<crawlVars, reqVars, pureVars, sideVars>>

\* cleanup_old_data(days_to_keep) on the store.
cleanup_store(days) ==
    /\ rates_dir' = cleanup_rates_dir(rates_dir, now, days)
    /\ UNCHANGED <<now, bank_list_file, summary_file, grades_dir, backup_dir, calls,
                   last_op>>
    /\ UNCHANGED <<crawlVars, reqVars, pureVars, sideVars>>

\* list_available_dates() on the store: one entry for each file of the rates
\* directory, plain or compressed, named by its date; from day d down.
RECURSIVE dates_listed(_, _)
dates_listed(dir, d) ==
    IF d < 0 THEN <<>>
    ELSE (IF [date |-> d, ext |-> "json"] \in DOMAIN dir
             /\ dir[[date |-> d, ext |-> "json"]].exists THEN <<d>> ELSE <<>>)
         \o (IF [date |-> d, ext |-> "json.gz"] \in DOMAIN dir
                /\ dir[[date |-> d, ext |-> "json.gz"]].exists THEN <<d>> ELSE <<>>)
         \o dates_listed(dir, d - 1)

\* Daily snapshots saved and old ones cleaned up, over some days.
NextRates ==
    \/ \E d \in ClockSteps : tick(d)
    \/ \E n \in RateCounts, d \in Dates, io \in IOOutcomes :
         calls < MaxCalls /\ save_daily_rates([n |-> n, v |-> calls + 1], d, io)
    \/ \E days \in CleanupOptions \ {0} : cleanup_store(days)

\* A crawl run some days after an earlier run filled the store.
NextRerun ==
    \/ earlier_snapshot
    \/ \E d \in ClockSteps : pc = "init" /\ bank_list_file.exists /\ now = 0 /\ tick(d)
    \/ now > 0 /\ NextCrawl

----------------------------------------------------------------------------
(* parser.py: BankParser._remove_duplicates.                               *)

\* longest name text tried
MaxNameLen == 8
\* the syllables of a name text ([가-힣]+)
Syllables == {"a", "b"}

RECURSIVE TextsOfLen(_)
TextsOfLen(n) ==
    IF n = 0 THEN {<<>>}
    ELSE {Append(t, c) : t \in TextsOfLen(n - 1), c \in Syllables}

\* the non-empty texts the name pattern can match
NameTexts == UNION {TextsOfLen(n) : n \in 1..MaxNameLen}

\* chunks = [text[i:i+chunk_size] for i in range(0, len(text), chunk_size)]
Chunks(text, divisor) ==
    LET chunk_size == Len(text) \div divisor
    IN [i \in 1..divisor |-> SubSeq(text, (i - 1) * chunk_size + 1, i * chunk_size)]

\* The test of one divisor: the length divides and the chunks are all equal.
SameChunks(text, divisor) ==
    /\ Len(text) >= divisor
    /\ Len(text) % divisor = 0
    /\ \A i \in 1..divisor : Chunks(text, divisor)[i] = Chunks(text, divisor)[1]

\* _remove_duplicates(text): `for divisor in [2, 3, 4]`, first match returns.
_remove_duplicates(text) ==
    IF SameChunks(text, 2) THEN Chunks(text, 2)[1]
    ELSE IF SameChunks(text, 3) THEN Chunks(text, 3)[1]
    ELSE IF SameChunks(text, 4) THEN Chunks(text, 4)[1]
    ELSE text

----------------------------------------------------------------------------
(* parser.py, crawler.py, storage.py: the deduplicators.                   *)

\* longest product list tried
MaxProducts == 3

\* Rows parse_product_row yields: the key fields and, outside the key, the
\* text the rate was parsed from.
ProductRows ==
    [product_name : {"MG"}, duration_months : {12}, interest_rate : {3},
     product_type : {"13", "14"}, rate_text : {"3.0%", "3.00%"}]

ProductLists == SeqsUpTo(ProductRows, MaxProducts)

\* key of parser.remove_duplicate_products: product.get('product_type', '')
ProductKeyOrDefault(product) ==
    <<product.product_name, product.duration_months, product.interest_rate,
      IF "product_type" \in DOMAIN product THEN product.product_type ELSE "">>

\* parser.remove_duplicate_products
RECURSIVE remove_duplicate_products(_)
remove_duplicate_products(products) ==
    IF products = <<>> THEN <<>>
    ELSE LET front == remove_duplicate_products(SubSeq(products, 1, Len(products) - 1))
             last == products[Len(products)]
         IN IF \E j \in 1..Len(front) :
                   ProductKeyOrDefault(front[j]) = ProductKeyOrDefault(last)
            THEN front
            ELSE Append(front, last)

NotCalled == [fn |-> "-", unique |-> <<>>]

NoText == <<>>

InitPure ==
    /\ name_in = NoText
    /\ name_out = NoText
    /\ dedup_in = <<>>
    /\ dedup_out = NotCalled

\* extract_from_text: bank_name = BankParser._remove_duplicates(name text)
call_remove_duplicates(text) ==
    /\ name_in' = text
    /\ name_out' = _remove_duplicates(text)
    /\ UNCHANGED <<dedup_in, dedup_out>>
    /\ UNCHANGED <<crawlVars, reqVars, storeVars, sideVars>>

NextNames ==
    \/ \E text \in NameTexts : call_remove_duplicates(text)

\* fetch_interest_rates: unique_products = self._remove_duplicate_products(...)
call_remove_duplicate_products_of_crawler(products) ==
    /\ dedup_out = NotCalled
    /\ dedup_in' = products
    /\ dedup_out' = [fn |-> "crawler._remove_duplicate_products",
                     unique |-> _remove_duplicate_products(products)]
    /\ UNCHANGED <<name_in, name_out>>
    /\ UNCHANGED <<crawlVars, reqVars, storeVars, sideVars>>

\* parse_interest_rates: unique_products = remove_duplicate_products(products)
call_remove_duplicate_products_of_parser(products) ==
    /\ dedup_out = NotCalled
    /\ dedup_in' = products
    /\ dedup_out' = [fn |-> "parser.remove_duplicate_products",
                     unique |-> remove_duplicate_products(products)]
    /\ UNCHANGED <<name_in, name_out>>
    /\ UNCHANGED <<crawlVars, reqVars, storeVars, sideVars>>

\* save_bank_list: unique_banks = self._remove_duplicate_banks(banks)
call_remove_duplicate_banks(banks) ==
    /\ dedup_out = NotCalled
    /\ dedup_in' = banks
    /\ dedup_out' = [fn |-> "storage._remove_duplicate_banks",
                     unique |-> _remove_duplicate_banks(banks)]
    /\ UNCHANGED <<name_in, name_out>>
    /\ UNCHANGED <<crawlVars, reqVars, storeVars, sideVars>>

NextDedup ==
    \/ \E products \in ProductLists : call_remove_duplicate_products_of_crawler(products)
    \/ \E products \in ProductLists : call_remove_duplicate_products_of_parser(products)
    \/ \E banks \in BankLists : call_remove_duplicate_banks(banks)

----------------------------------------------------------------------------
(* parser.py: texts. A text is a sequence of characters; a character of    *)
(* more than one letter stands for one Hangul syllable ("wol" for the      *)
(* month sign).                                                            *)

Digits == <<"0", "1", "2", "3", "4", "5", "6", "7", "8", "9">>

\* \d
IsDigit(c) == \E i \in DOMAIN Digits : Digits[i] = c
DigitValue(c) == (CHOOSE i \in DOMAIN Digits : Digits[i] = c) - 1

\* int(text) of a run of digits
RECURSIVE ToInt(_)
ToInt(ds) ==
    IF ds = <<>> THEN 0
    ELSE 10 * ToInt(SubSeq(ds, 1, Len(ds) - 1)) + DigitValue(ds[Len(ds)])

\* text.replace(old, ''): every occurrence of old removed, left to right
RECURSIVE Removed(_, _)
Removed(text, old) ==
    IF Len(text) < Len(old) THEN text
    ELSE IF SubSeq(text, 1, Len(old)) = old
         THEN Removed(SubSeq(text, Len(old) + 1, Len(text)), old)
         ELSE <<Head(text)>> \o Removed(Tail(text), old)

\* where re.search(r'(\d+...)') starts: the first digit of the text, or 0
FirstDigit(text) ==
    IF \E i \in 1..Len(text) : IsDigit(text[i])
    THEN CHOOSE i \in 1..Len(text) :
             IsDigit(text[i]) /\ \A k \in 1..(i - 1) : ~IsDigit(text[k])
    ELSE 0

\* \d* from position i: the position after the run of digits starting at i
RunEnd(text, i) ==
    CHOOSE j \in i..(Len(text) + 1) :
        /\ \A k \in i..(j - 1) : IsDigit(text[k])
        /\ (j = Len(text) + 1 \/ ~IsDigit(text[j]))

\* every text of at most n characters of S
RECURSIVE TextsUpTo(_, _)
TextsUpTo(S, n) ==
    IF n = 0 THEN {<<>>}
    ELSE LET shorter == TextsUpTo(S, n - 1)
         IN shorter \cup {Append(t, c) : t \in {r \in shorter : Len(r) = n - 1}, c \in S}

----------------------------------------------------------------------------
(* parser.py: InterestRateParser.parse_product_row.                        *)

\* longest cell text tried
MaxCellLen == 3

\* The product types the crawler asks for, by name: yogubul (sight deposit),
\* geochisik (term deposit), jeokripsik (installment deposit).
ProductTypeNames == {"yogubul", "geochisik", "jeokripsik"}

\* _is_valid_product: the product names listed for each product type.
valid_products ==
    [t \in ProductTypeNames |->
        CASE t = "yogubul" -> {"OnlineJaripYetakgeum", "SangsangMobileTongjang"}
          [] t = "geochisik" -> {"MGTheBankingJeonggiYegeum"}
          [] t = "jeokripsik" -> {"MGTheBankingJeonggiJeokgeum",
                                  "MGTheBankingJayuJeokgeum"}]

\* any(name in product_name for name in valid_products[product_type]); a
\* listed name is one character of the cell's text.
_is_valid_product(product_name, product_type) ==
    /\ product_type \in DOMAIN valid_products
    /\ \E name \in valid_products[product_type] :
           \E i \in 1..Len(product_name) : product_name[i] = name

\* A duration and a rate taken from the last two columns whatever the type.
LastTwoColumns(cells, product_type) ==
    [duration_text |-> cells[Len(cells) - 1], rate_text |-> cells[Len(cells)]]

\* _extract_duration_and_rate(cells, product_type), for len(cells) >= 2.
_extract_duration_and_rate(cells, product_type) ==
    IF product_type = "yogubul"
    THEN [duration_text |-> <<>>, rate_text |-> cells[Len(cells)]]
    ELSE [duration_text |-> cells[Len(cells) - 1], rate_text |-> cells[Len(cells)]]

\* _parse_duration(text): the first run of digits of the text without the
\* month sign and without "isang" (or more), 0 if there is none.
_parse_duration(text) ==
    IF text = <<>> THEN 0
    ELSE LET t == Removed(Removed(text, <<"wol">>), <<"i", "sang">>)
             i == FirstDigit(t)
         IN IF i = 0 THEN 0 ELSE ToInt(SubSeq(t, i, RunEnd(t, i) - 1))

\* A float read from decimal digits: n / 10^places, without trailing zeros.
RECURSIVE Float(_, _)
Float(whole, frac) ==
    IF frac # <<>> /\ frac[Len(frac)] = "0"
    THEN Float(whole, SubSeq(frac, 1, Len(frac) - 1))
    ELSE [n |-> ToInt(whole \o frac), places |-> Len(frac)]

Zero == Float(<<>>, <<>>)

\* _parse_rate(text): float of the first match of (\d+\.?\d*) in the text
\* without the percent sign, 0.0 if there is none.
_parse_rate(text) ==
    IF text = <<>> THEN Zero
    ELSE LET t == Removed(text, <<"%">>)
             i == FirstDigit(t)
             j == RunEnd(t, i)
         IN IF i = 0 THEN Zero
            ELSE IF j <= Len(t) /\ t[j] = "."
                 THEN Float(SubSeq(t, i, j - 1), SubSeq(t, j + 1, RunEnd(t, j + 1) - 1))
                 ELSE Float(SubSeq(t, i, j - 1), <<>>)

\* A validity test that looks at the rate only.
RateOnly(product_type, duration, rate) == rate.n > 0

\* The validity test of parse_product_row: the row is kept.
IsValidQuote(product_type, duration, rate) ==
    IF product_type = "yogubul" THEN ~(rate.n <= 0)
    ELSE ~(duration <= 0 \/ rate.n <= 0)

\* parse_product_row(cells, product_type): <<>> for None, else the product.
parse_product_row(cells, product_type) ==
    IF Len(cells) < 2 THEN <<>>
    ELSE IF ~_is_valid_product(cells[1], product_type) THEN <<>>
    ELSE LET texts == _extract_duration_and_rate(cells, product_type)
             duration == _parse_duration(texts.duration_text)
             rate == _parse_rate(texts.rate_text)
         IN IF ~IsValidQuote(product_type, duration, rate) THEN <<>>
            ELSE <<[product_name |-> cells[1],
                    duration_months |-> duration,
                    interest_rate |-> rate,
                    duration_text |-> texts.duration_text,
                    rate_text |-> texts.rate_text,
                    product_type |-> product_type]>>

\* The first cell of a row: a listed name of each type, one followed by a
\* digit, and a name that is not listed.
NameCells == {<<"OnlineJaripYetakgeum">>, <<"MGTheBankingJeonggiYegeum">>,
              <<"MGTheBankingJayuJeokgeum", "3">>, <<"Daechul">>}
\* The cells of the duration column and of the rate column, and the texts of
\* a 12-months-or-more term at 3.25%.
DurationCells == TextsUpTo({"0", "3", "wol"}, MaxCellLen)
                 \cup {<<"1", "2", "gae", "wol", "i", "sang">>}
RateCells == TextsUpTo({"0", "3", ".", "%"}, MaxCellLen)
             \cup {<<"3", ".", "2", "5", "%">>}

\* The rows of a rate table: the name alone, name and rate, or name,
\* duration and rate.
RateRows == {<<n>> : n \in NameCells}
            \cup {<<n, r>> : n \in NameCells, r \in RateCells}
            \cup {<<n, d, r>> : n \in NameCells, d \in DurationCells, r \in RateCells}

NoRow == [cells |-> <<>>, product_type |-> "-"]
NoRowResult == [called |-> FALSE, product |-> <<>>]

InitRows ==
    /\ row_in = NoRow
    /\ row_out = NoRowResult

\* parse_interest_rates: product = parser.parse_product_row(cells, product_type)
call_parse_product_row(cells, product_type) ==
    /\ ~row_out.called
    /\ row_in' = [cells |-> cells, product_type |-> product_type]
    /\ row_out' = [called |-> TRUE, product |-> parse_product_row(cells, product_type)]
    /\ UNCHANGED <<bankRowVars, queryVars, gradeVars, fetchVars>>
    /\ UNCHANGED <<crawlVars, reqVars, storeVars, pureVars>>

NextRows ==
    \/ ~row_out.called
       /\ \E cells \in RateRows, product_type \in ProductTypeNames :
            call_parse_product_row(cells, product_type)

----------------------------------------------------------------------------
(* parser.py: BankParser and the rows of parse_bank_list.                  *)
(* A row is its hidden spans (title and text of each), the number of its   *)
(* td cells and the text outside the hidden spans; row.get_text() is the   *)
(* text of the spans followed by the rest. Of the record a strategy        *)
(* returns, the model keeps the fields the hidden spans can set and, for   *)
(* the text strategy, gmgoCd and name (phone, address and type are set on  *)
(* every return and decide nothing).                                       *)

\* hidden spans without a listed title tried in one row
MaxOtherSpans == 5

\* field_mapping of extract_from_hidden_spans
field_mapping ==
    [title \in {"gmgoCd", "name", "divNm", "gmgoType", "telephone", "addr"} |->
        CASE title = "gmgoCd" -> "gmgoCd"
          [] title = "name" -> "name"
          [] title = "divNm" -> "branch_name"
          [] title = "gmgoType" -> "type"
          [] title = "telephone" -> "phone"
          [] title = "addr" -> "address"]

Span(title, value) == [title |-> title, value |-> value]

RECURSIVE Flattened(_)
Flattened(texts) ==
    IF texts = <<>> THEN <<>> ELSE Head(texts) \o Flattened(Tail(texts))

\* row.get_text(strip=True)
full_text(row) ==
    Flattened([i \in 1..Len(row.spans) |-> row.spans[i].value]) \o row.visible

\* A required-field test that fails only when both fields are missing.
BothMissing(keys) == "gmgoCd" \notin keys /\ "name" \notin keys

\* if 'gmgoCd' not in bank_data or 'name' not in bank_data: return None
RequiredMissing(keys) == "gmgoCd" \notin keys \/ "name" \notin keys

\* extract_from_hidden_spans(row): <<>> for None, else <<bank_data>>.
extract_from_hidden_spans(row) ==
    LET hidden_spans == row.spans
        titled == {i \in 1..Len(hidden_spans) :
                      hidden_spans[i].title \in DOMAIN field_mapping}
        keys == {field_mapping[hidden_spans[i].title] : i \in titled}
        last(k) == CHOOSE i \in titled :
                      /\ field_mapping[hidden_spans[i].title] = k
                      /\ \A j \in titled :
                            field_mapping[hidden_spans[j].title] = k => j <= i
        bank_data == [k \in keys |-> hidden_spans[last(k)].value]
    IN IF Len(hidden_spans) < 5 THEN <<>>
       ELSE IF RequiredMissing(keys) THEN <<>>
       ELSE IF "branch_name" \in keys /\ bank_data["branch_name"] # <<>>
            THEN <<[k \in keys \ {"branch_name"} |->
                      IF k = "name"
                      THEN bank_data["name"] \o <<"(">> \o bank_data["branch_name"]
                           \o <<")">>
                      ELSE bank_data[k]]>>
            ELSE <<bank_data>>

\* ^(\d{5})
CodeMatches(text) == Len(text) >= 5 /\ \A k \in 1..5 : IsDigit(text[k])

\* ^\d{5}([가-힣]+): the position after the run of syllables that starts at
\* position 6, and 6 when no syllable stands there
NameEnd(text) ==
    CHOOSE j \in 6..(Len(text) + 1) :
        /\ \A k \in 6..(j - 1) : text[k] \in Syllables
        /\ (j = Len(text) + 1 \/ text[j] \notin Syllables)

\* re.search(r'\(([^)]+)\)', full_text): the group of the first match
branch_name_of(text) ==
    LET Closes(p, q) == /\ text[p] = "("
                        /\ text[q] = ")"
                        /\ q >= p + 2
                        /\ \A k \in (p + 1)..(q - 1) : text[k] # ")"
        Opens(p) == \E q \in (p + 2)..Len(text) : Closes(p, q)
    IN IF \E p \in 1..Len(text) : Opens(p)
       THEN LET p == CHOOSE p \in 1..Len(text) :
                        Opens(p) /\ \A o \in 1..(p - 1) : ~Opens(o)
                q == CHOOSE q \in (p + 2)..Len(text) : Closes(p, q)
            IN SubSeq(text, p + 1, q - 1)
       ELSE <<>>

\* extract_from_text(row): <<>> for None, else <<bank_data>>.
extract_from_text(row) ==
    LET text == full_text(row)
    IN IF row.cells < 6 THEN <<>>
       ELSE IF ~CodeMatches(text) THEN <<>>
       ELSE IF NameEnd(text) = 6 THEN <<>>
       ELSE LET bank_name == _remove_duplicates(SubSeq(text, 6, NameEnd(text) - 1))
                branch_name == branch_name_of(text)
            IN <<[gmgoCd |-> SubSeq(text, 1, 5),
                  name |-> IF branch_name # <<>>
                           THEN bank_name \o <<"(">> \o branch_name \o <<")">>
                           ELSE bank_name]>>

\* parse_bank_list, one row: the strategies tried and the record appended
\* to banks (with the city of the request), if any.
parse_bank_row(row, city) ==
    LET hidden == extract_from_hidden_spans(row)
        bank_data == IF hidden = <<>> THEN extract_from_text(row) ELSE hidden
    IN [called |-> TRUE,
        strategy |-> IF hidden # <<>> THEN "hidden_spans"
                     ELSE IF bank_data # <<>> THEN "text" ELSE "-",
        text_tried |-> hidden = <<>>,
        banks |-> IF bank_data = <<>> THEN <<>>
                  ELSE <<[k \in DOMAIN bank_data[1] \cup {"city"} |->
                            IF k = "city" THEN city ELSE bank_data[1][k]]>>]

\* The text of a span of each title: a code of five digits, of two digits or
\* empty; a name or nothing; a sub-name or nothing.
SpanValues ==
    [title \in DOMAIN field_mapping |->
        CASE title = "gmgoCd" -> {<<"1", "0", "0", "0", "1">>, <<"1", "2">>, <<>>}
          [] title = "name" -> {<<"a", "b">>, <<>>}
          [] title = "divNm" -> {<<"b">>, <<>>}
          [] title = "gmgoType" -> {<<"j">>}
          [] title = "telephone" -> {<<"0", "2">>}
          [] title = "addr" -> {<<"s">>}]

TitleOrder == <<"gmgoCd", "name", "divNm", "gmgoType", "telephone", "addr">>

\* The hidden spans of a row: the titled spans of a set of titles, in the
\* order of the page, each with one of its texts, then n spans of no title.
RECURSIVE TitledSpans(_, _)
TitledSpans(titles, k) ==
    IF k = 0 THEN {<<>>}
    ELSE LET front == TitledSpans(titles, k - 1)
         IN IF TitleOrder[k] \in titles
            THEN {Append(s, Span(TitleOrder[k], v)) :
                     s \in front, v \in SpanValues[TitleOrder[k]]}
            ELSE front

OtherSpans(n) == [i \in 1..n |-> Span("", <<>>)]

\* The text of a row outside its hidden spans.
VisibleTexts ==
    {<<>>,
     <<"1", "0", "0", "0", "2">>,
     <<"1", "0", "0", "0", "2", "a", "b", "a", "b">>,
     <<"1", "0", "0", "0", "2", "a", "(", "b", ")">>,
     <<"1", "0", "0", "2", "a">>,
     <<"a", "1", "0", "0", "0", "2">>}

BankRows ==
    {[spans |-> s \o OtherSpans(n), cells |-> c, visible |-> v] :
        s \in UNION {TitledSpans(titles, Len(TitleOrder)) :
                        titles \in SUBSET DOMAIN field_mapping},
        n \in 0..MaxOtherSpans, c \in {1, 6}, v \in VisibleTexts}

NoBankRow == [spans |-> <<>>, cells |-> 0, visible |-> <<>>]
NoBankRowResult == [called |-> FALSE, strategy |-> "-", text_tried |-> FALSE,
                    banks |-> <<>>]

InitBankRows ==
    /\ brow_in = NoBankRow
    /\ brow_out = NoBankRowResult

\* parse_bank_list(html, city, district): the body of `for row in rows`
parse_bank_list(row, city) ==
    /\ brow_in' = row
    /\ brow_out' = parse_bank_row(row, city)
    /\ UNCHANGED <<rowVars, queryVars, gradeVars, fetchVars>>
    /\ UNCHANGED <<crawlVars, reqVars, storeVars, pureVars>>

NextBankRows ==
    \/ ~brow_out.called
       /\ \E row \in BankRows, city \in Targets : parse_bank_list(row, city)

----------------------------------------------------------------------------
(* storage.py: the operations that scan data/rates by file name:           *)
(* cleanup_old_data, get_latest_rates, list_available_dates. The directory *)
(* is the set of its file names; a file's content is named by its name.    *)

\* The characters of file names in the order of their code points: str
\* comparison is by code point.
CodePointOrder == <<"-", ".", "0", "1", "2", "3", "4", "5", "6", "7", "8", "9",
                    "e", "g", "j", "n", "o", "s", "t", "z">>
CodePointRank(c) == CHOOSE i \in DOMAIN CodePointOrder : CodePointOrder[i] = c

\* a < b for str
RECURSIVE StrLess(_, _)
StrLess(a, b) ==
    IF b = <<>> THEN FALSE
    ELSE IF a = <<>> THEN TRUE
    ELSE IF Head(a) = Head(b) THEN StrLess(Tail(a), Tail(b))
    ELSE CodePointRank(Head(a)) < CodePointRank(Head(b))

\* text.split(sep) for a separator of one character
RECURSIVE Split(_, _)
Split(text, sep) ==
    IF \E i \in 1..Len(text) : text[i] = sep
    THEN LET i == CHOOSE i \in 1..Len(text) :
                     text[i] = sep /\ \A k \in 1..(i - 1) : text[k] # sep
         IN <<SubSeq(text, 1, i - 1)>> \o Split(SubSeq(text, i + 1, Len(text)), sep)
    ELSE <<text>>

AllDigits(text) == \A k \in 1..Len(text) : IsDigit(text[k])

\* old in text
Contains(text, old) ==
    \E i \in 1..(Len(text) - Len(old) + 1) : SubSeq(text, i, i + Len(old) - 1) = old

\* text.endswith(suffix)
EndsWith(text, suffix) ==
    /\ Len(text) >= Len(suffix)
    /\ SubSeq(text, Len(text) - Len(suffix) + 1, Len(text)) = suffix

DotJson == <<".", "j", "s", "o", "n">>
DotJsonGz == DotJson \o <<".", "g", "z">>

\* Path.stem: the name without its last suffix; a dot at the start or at
\* the end of the name starts no suffix.
stem(name) ==
    LET dots == {i \in 2..(Len(name) - 1) : name[i] = "."}
    IN IF dots = {} THEN name
       ELSE SubSeq(name, 1, (CHOOSE i \in dots : \A j \in dots : j <= i) - 1)

\* file.stem.replace('.json', '')
date_str_of(name) == Removed(stem(name), DotJson)

\* calendar of datetime
IsLeap(y) == y % 4 = 0 /\ (y % 100 # 0 \/ y % 400 = 0)
DaysInMonth(y, m) ==
    IF m = 2 THEN (IF IsLeap(y) THEN 29 ELSE 28)
    ELSE IF m \in {4, 6, 9, 11} THEN 30 ELSE 31
RECURSIVE DaysBeforeMonth(_, _)
DaysBeforeMonth(y, m) ==
    IF m = 1 THEN 0 ELSE DaysBeforeMonth(y, m - 1) + DaysInMonth(y, m - 1)
\* date.toordinal()
toordinal(date) ==
    LET y == date.year - 1
    IN y * 365 + (y \div 4) - (y \div 100) + (y \div 400)
       + DaysBeforeMonth(date.year, date.month) + date.day

\* datetime.strptime(text, '%Y-%m-%d'): <<>> for ValueError, else <<date>>.
\* %Y is four digits, %m and %d are one or two digits, and the day must
\* exist in the month.
strptime(text) ==
    LET parts == Split(text, "-")
    IN IF /\ Len(parts) = 3
          /\ \A k \in 1..3 : AllDigits(parts[k])
          /\ Len(parts[1]) = 4
          /\ Len(parts[2]) \in {1, 2}
          /\ Len(parts[3]) \in {1, 2}
          /\ ToInt(parts[1]) >= 1
          /\ ToInt(parts[2]) \in 1..12
          /\ ToInt(parts[3]) \in 1..DaysInMonth(ToInt(parts[1]), ToInt(parts[2]))
       THEN <<[year |-> ToInt(parts[1]), month |-> ToInt(parts[2]),
               day |-> ToInt(parts[3])]>>
       ELSE <<>>

\* The day the clock shows: day 0 of the clock is 2026-07-01.
Today(t) == toordinal([year |-> 2026, month |-> 7, day |-> 1]) + t

\* A cutoff compared by calendar day only.
BeforeCutoffDay(date, t, days) == toordinal(date) < Today(t) - days

\* file_date < datetime.now() - timedelta(days): file_date is a midnight
\* and now is not, so a date exactly `days` days back is before the cutoff.
BeforeCutoff(date, t, days) == toordinal(date) <= Today(t) - days

\* The file names a rates directory may hold.
Y2026 == <<"2", "0", "2", "6">>
Dated(month, day) == Y2026 \o <<"-">> \o month \o <<"-">> \o day
FileNames ==
    {Dated(<<"0", "7">>, <<"0", "1">>) \o DotJson,
     Dated(<<"0", "7">>, <<"0", "1">>) \o DotJsonGz,
     Dated(<<"0", "6">>, <<"3", "0">>) \o DotJson,
     Dated(<<"0", "6">>, <<"2", "1">>) \o DotJsonGz,
     Dated(<<"0", "6">>, <<"1", "0">>) \o DotJson,
     Dated(<<"0", "5">>, <<"2", "2">>) \o DotJson,
     Dated(<<"6">>, <<"1">>) \o DotJson,
     Dated(<<"0", "2">>, <<"3", "0">>) \o DotJson,
     <<"n", "o", "t", "e", "s">> \o DotJson}

\* cleanup_old_data(days_to_keep): the values of the argument tried
CleanupDays == {0, 10, 30}

NoQuery == [op |-> "-", before |-> {}, at |-> 0, days |-> 0, unlink_fails |-> {},
            count |-> 0, dates |-> <<>>, latest |-> <<>>]

InitQuery ==
    /\ listing = {}
    /\ query_out = NoQuery

\* A file appears in data/rates: written by save_daily_rates, or by anything
\* else that writes to the directory.
put_file(name) ==
    /\ name \notin listing
    /\ listing' = listing \cup {name}
    /\ UNCHANGED query_out
    /\ UNCHANGED <<rowVars, bankRowVars, gradeVars, fetchVars>>
    /\ UNCHANGED <<crawlVars, reqVars, storeVars, pureVars>>

\* self.rates_dir.glob('*.json*')
GlobJsonAny(dir) == {f \in dir : Contains(f, DotJson)}
\* self.rates_dir.glob('*.json'), self.rates_dir.glob('*.json.gz')
GlobJson(dir) == {f \in dir : EndsWith(f, DotJson)}
GlobJsonGz(dir) == {f \in dir : EndsWith(f, DotJsonGz)}

\* The files cleanup_old_data takes for old: the name gives a date and the
\* date is before the cutoff.
OldFiles(dir, t, days) ==
    {f \in GlobJsonAny(dir) :
        /\ strptime(date_str_of(f)) # <<>>
        /\ BeforeCutoff(strptime(date_str_of(f))[1], t, days)}

\* cleanup_old_data(days): file.unlink() raises OSError for the files of
\* unlink_fails, which are then kept and not counted.
cleanup_old_data(days, unlink_fails) ==
    LET removed == OldFiles(listing, now, days) \ unlink_fails
    IN /\ listing' = listing \ removed
       /\ query_out' = [NoQuery EXCEPT !.op = "cleanup_old_data",
                                       !.before = listing, !.at = now,
                                       !.days = days,
                                       !.unlink_fails = unlink_fails,
                                       !.count = Cardinality(removed)]
       /\ UNCHANGED <<rowVars, bankRowVars, gradeVars, fetchVars>>
       /\ UNCHANGED <<crawlVars, reqVars, storeVars, pureVars>>

\* max(rate_files, key=lambda f: f.stem.replace('.json', '')): the first of
\* the files of greatest key in the list glob('*.json') + glob('*.json.gz').
latest_file(dir) ==
    LET rate_files == GlobJson(dir) \cup GlobJsonGz(dir)
        greatest == {f \in rate_files :
                        \A g \in rate_files : ~StrLess(date_str_of(f), date_str_of(g))}
    IN IF greatest \cap GlobJson(dir) # {}
       THEN CHOOSE f \in greatest \cap GlobJson(dir) : TRUE
       ELSE CHOOSE f \in greatest : TRUE

\* get_latest_rates(): None without rate files, else load_json(latest_file).
get_latest_rates ==
    /\ query_out' = [NoQuery EXCEPT !.op = "get_latest_rates",
                                    !.before = listing, !.at = now,
                                    !.latest =
                                        IF GlobJson(listing) \cup GlobJsonGz(listing) = {}
                                        THEN <<>>
                                        ELSE <<latest_file(listing)>>]
    /\ UNCHANGED listing
    /\ UNCHANGED <<rowVars, bankRowVars, gradeVars, fetchVars>>
    /\ UNCHANGED <<crawlVars, reqVars, storeVars, pureVars>>

\* sorted(dates, reverse=True) of the date_str of the given files
RECURSIVE sorted_reverse(_)
sorted_reverse(files) ==
    IF files = {} THEN <<>>
    ELSE LET f == CHOOSE f \in files :
                     \A g \in files : ~StrLess(date_str_of(f), date_str_of(g))
         IN <<date_str_of(f)>> \o sorted_reverse(files \ {f})

\* list_available_dates()
list_available_dates ==
    /\ query_out' = [NoQuery EXCEPT !.op = "list_available_dates",
                                    !.before = listing, !.at = now,
                                    !.dates = sorted_reverse(
                                        {f \in GlobJsonAny(listing) :
                                            strptime(date_str_of(f)) # <<>>})]
    /\ UNCHANGED listing
    /\ UNCHANGED <<rowVars, bankRowVars, gradeVars, fetchVars>>
    /\ UNCHANGED <<crawlVars, reqVars, storeVars, pureVars>>

\* The sets of files whose unlink fails: none, or the file of 2026-05-22.
UnlinkFaults == {{}, {Dated(<<"0", "5">>, <<"2", "2">>) \o DotJson}}

\* One scan of the directory in a behaviour, after the files were put there.
NextQuery ==
    \/ query_out = NoQuery /\ \E d \in ClockSteps : tick(d)
    \/ query_out = NoQuery /\ \E name \in FileNames : put_file(name)
    \/ query_out = NoQuery
       /\ \E days \in CleanupDays, unlink_fails \in UnlinkFaults :
            cleanup_old_data(days, unlink_fails)
    \/ query_out = NoQuery /\ get_latest_rates
    \/ query_out = NoQuery /\ list_available_dates

----------------------------------------------------------------------------
(* grade_crawler.py and main.py: the collection of evaluation grades.      *)

\* GRADE_CONFIG['retry_count']
grade_retry_count == 2

Months == 1..12

\* GRADE_CONFIG['collection_month']: one month, or a list of months
CollectionMonths == {[list |-> FALSE, months |-> <<7>>],
                     [list |-> TRUE, months |-> <<7>>],
                     [list |-> TRUE, months |-> <<1, 7>>]}

\* the values of the environment variable FORCE_GRADE_COLLECTION ('' when
\* it is not set)
ForceValues == {"", "true", "TRUE", "1"}

\* str.lower() on those values
lower(s) == IF s = "TRUE" THEN "true" ELSE s

\* What should_collect_grades reads: the configuration, the environment and
\* the month of datetime.now().
\* GRADE_CONFIG['evaluation_year'], GRADE_CONFIG['evaluation_month']
EvaluationPeriods == {[year |-> 2024, month |-> 12], [year |-> 2025, month |-> 6]}

GradeEnv(enabled, collection_month, force, current_month, period) ==
    [enabled |-> enabled, collection_month |-> collection_month, force |-> force,
     current_month |-> current_month,
     evaluation_year |-> period.year, evaluation_month |-> period.month]

GradeEnvs == {GradeEnv(e, c, f, m, p) : e \in BOOLEAN, c \in CollectionMonths,
                  f \in ForceValues, m \in Months, p \in EvaluationPeriods}
NoGradeEnv == GradeEnv(FALSE, [list |-> FALSE, months |-> <<7>>], "", 1,
                       [year |-> 2024, month |-> 12])

\* current_month in collection_months / current_month == collection_months
MonthGate(env) ==
    IF env.collection_month.list
    THEN \E k \in 1..Len(env.collection_month.months) :
             env.collection_month.months[k] = env.current_month
    ELSE env.current_month = env.collection_month.months[1]

\* A gate that looks at the month before it looks at the environment.
MonthGateFirst(env) ==
    IF ~env.enabled THEN FALSE
    ELSE IF ~MonthGate(env) THEN FALSE
    ELSE TRUE

\* GradeCrawler.should_collect_grades()
should_collect_grades(env) ==
    IF ~env.enabled THEN FALSE
    ELSE IF lower(env.force) = "true" THEN TRUE
    ELSE MonthGate(env)

\* The branch lists stored before grades are collected.
GradeBankLists == {<<Bank("10001", 1)>>, <<Bank("10001", 1), Bank("10002", 2)>>}

\* The literal the pattern of parse_grade_data starts with.
Marker == <<"3", "1", "0", "0", "0", "0", "0", "1">>

StartsAt(text, s, prefix) ==
    /\ s + Len(prefix) - 1 <= Len(text)
    /\ \A k \in 1..Len(prefix) : text[s + k - 1] = prefix[k]

\* The position of the first '|' at or after position i, 0 when there is none.
NextPipe(text, i) ==
    IF \E j \in i..Len(text) : text[j] = "|"
    THEN CHOOSE j \in i..Len(text) :
             text[j] = "|" /\ \A k \in i..(j - 1) : text[k] # "|"
    ELSE 0

\* r"31000001([^\|]+)\|([0-9]{8})\|([0-9])" matches at position s: the first
\* group cannot hold a '|' and a '|' follows it, so it ends before the first
\* '|' after the literal.
MatchAt(text, s) ==
    LET j == NextPipe(text, s + Len(Marker))
    IN /\ StartsAt(text, s, Marker)
       /\ j > s + Len(Marker)
       /\ j + 10 <= Len(text)
       /\ \A k \in 1..8 : IsDigit(text[j + k])
       /\ text[j + 9] = "|"
       /\ IsDigit(text[j + 10])

\* The three groups of the match at position s.
Groups(text, s) ==
    LET j == NextPipe(text, s + Len(Marker))
    IN [agency |-> SubSeq(text, s + Len(Marker), j - 1),
        date |-> SubSeq(text, j + 1, j + 8),
        grade |-> text[j + 10]]

\* pattern.findall(data_str) from position s on: the matches from left to
\* right, each search starting where the previous match ended.
RECURSIVE findall(_, _)
findall(text, s) ==
    IF s > Len(text) THEN <<>>
    ELSE IF MatchAt(text, s)
         THEN <<Groups(text, s)>> \o findall(text, NextPipe(text, s + Len(Marker)) + 11)
         ELSE findall(text, s + 1)

\* str.strip()
RECURSIVE strip(_)
strip(text) ==
    IF text = <<>> THEN text
    ELSE IF Head(text) = " " THEN strip(Tail(text))
    ELSE IF text[Len(text)] = " " THEN strip(SubSeq(text, 1, Len(text) - 1))
    ELSE text

\* A reading of the matches that takes the last one.
LastMatch(matches) == matches[Len(matches)]

\* matches[0]
FirstMatch(matches) == matches[1]

\* parse_grade_data(html, gmgo_cd, ...): no record, or the record of the
\* first match.
parse_grade_data(html, gmgo_cd, env) ==
    IF ~html.input THEN <<>>
    ELSE IF html.value = <<>> THEN <<>>
    ELSE LET matches == findall(html.value, 1)
         IN IF matches = <<>> THEN <<>>
            ELSE <<[gmgo_cd |-> gmgo_cd,
                    evaluation_agency |-> strip(FirstMatch(matches).agency),
                    evaluation_date |-> FirstMatch(matches).date,
                    grade_code |-> FirstMatch(matches).grade,
                    evaluation_year |-> env.evaluation_year,
                    evaluation_month |-> env.evaluation_month]>>

\* The entries a contentsdata value is made of: two evaluations, an entry
\* with no agency, one with a date of seven digits, one of another kind.
Entry(head, agency, date, grade) == head \o agency \o <<"|">> \o date \o <<"|">> \o grade
Date2024 == <<"2", "0", "2", "4", "1", "2", "3", "1">>
Date2023 == <<"2", "0", "2", "3", "1", "2", "3", "1">>
EvaluationA == Entry(Marker, <<"A">>, Date2024, <<"1">>)
EvaluationB == Entry(Marker, <<" ", "B", " ">>, Date2023, <<"4">>)
NoAgency == Entry(Marker, <<>>, Date2024, <<"2">>)
ShortDate == Entry(Marker, <<"C">>, SubSeq(Date2024, 1, 7), <<"3">>)
OtherKind == Entry(<<"3", "1", "0", "0", "0", "0", "0", "2">>, <<"D">>, Date2024, <<"5">>)

\* The responses to an evaluation request: a page without the contentsdata
\* input, with an empty value, or with a value of one or two entries; and
\* FailedResponse when every attempt raised a RequestException.
Html(input, value) == [received |-> TRUE, input |-> input, value |-> value]
FailedResponse == [received |-> FALSE, input |-> FALSE, value |-> <<>>]
GradeResponses ==
    {Html(FALSE, EvaluationA), Html(TRUE, <<>>), Html(TRUE, EvaluationA),
     Html(TRUE, EvaluationB \o EvaluationA), Html(TRUE, NoAgency \o EvaluationB),
     Html(TRUE, ShortDate \o OtherKind)}

NoFetch == [bank |-> 0, response |-> FailedResponse]

InitGrades ==
    /\ g_pc = "idle"
    /\ g_env = NoGradeEnv
    /\ g_banks = <<>>
    /\ g_should = "-"
    /\ g_fetched = {}
    /\ g_requests = 0
    /\ g_grades = <<>>
    /\ g_calls0 = 0
    /\ g_ret = "-"
    /\ g_log = <<>>
    /\ g_last = NoFetch

\* storage.load_banks(): None when the file is missing or does not parse.
load_banks ==
    IF bank_list_file.exists /\ bank_list_file.doc.kind = "banks"
    THEN <<bank_list_file.doc>> ELSE <<>>

\* collect_grades(), up to the call of collect_all_grades.
collect_grades(env) ==
    /\ g_pc = "idle"
    /\ g_env' = env
    /\ g_calls0' = calls
    /\ IF load_banks = <<>>
       THEN /\ g_pc' = "returned"
            /\ g_ret' = "False"
            /\ g_log' = Append(g_log, "collect the bank list first")
            /\ UNCHANGED g_banks
       ELSE /\ g_pc' = "gate"
            /\ g_banks' = load_banks[1].banks
            /\ UNCHANGED <<g_ret, g_log>>
    /\ UNCHANGED <<g_should, g_fetched, g_requests, g_grades, g_last>>
    /\ UNCHANGED <<rowVars, bankRowVars, queryVars, fetchVars>>
    /\ UNCHANGED <<crawlVars, reqVars, storeVars, pureVars>>

\* collect_all_grades(banks): the gate, and the submission of the fetches.
collect_all_grades ==
    /\ g_pc = "gate"
    /\ g_should' = IF should_collect_grades(g_env) THEN "True" ELSE "False"
    /\ IF ~should_collect_grades(g_env)
       THEN /\ g_pc' = "collected"
            /\ g_log' = Append(g_log, "not the time to collect grades")
       ELSE /\ g_pc' = "fetching"
            /\ UNCHANGED g_log
    /\ UNCHANGED <<g_env, g_banks, g_fetched, g_requests, g_grades, g_calls0, g_ret, g_last>>
    /\ UNCHANGED <<rowVars, bankRowVars, queryVars, fetchVars>>
    /\ UNCHANGED <<crawlVars, reqVars, storeVars, pureVars>>

\* fetch_grade_for_bank of bank i, with its result taken by the loop over
\* as_completed: `attempts` requests were posted, and the last one was
\* answered by `response` unless every attempt failed.
fetch_grade_for_bank(i, attempts, response) ==
    /\ g_pc = "fetching"
    /\ i \in DOMAIN g_banks
    /\ i \notin g_fetched
    /\ ~response.received => attempts = grade_retry_count
    /\ g_fetched' = g_fetched \cup {i}
    /\ g_requests' = g_requests + attempts
    /\ g_grades' = IF response.received
                   THEN g_grades \o parse_grade_data(response, g_banks[i].gmgoCd, g_env)
                   ELSE g_grades
    /\ g_last' = [bank |-> i, response |-> response]
    /\ UNCHANGED <<g_pc, g_env, g_banks, g_should, g_calls0, g_ret, g_log>>
    /\ UNCHANGED <<rowVars, bankRowVars, queryVars, fetchVars>>
    /\ UNCHANGED <<crawlVars, reqVars, storeVars, pureVars>>

\* collect_all_grades returns all_grades when every future was taken.
collect_all_grades_return ==
    /\ g_pc = "fetching"
    /\ g_fetched = DOMAIN g_banks
    /\ g_pc' = "collected"
    /\ UNCHANGED <<g_env, g_banks, g_should, g_fetched, g_requests, g_grades,
                   g_calls0, g_ret, g_log, g_last>>
    /\ UNCHANGED <<rowVars, bankRowVars, queryVars, fetchVars>>
    /\ UNCHANGED <<crawlVars, reqVars, storeVars, pureVars>>

\* collect_grades: `if grades_data: success = storage.save_grades(grades_data)`
collect_grades_save(io) ==
    /\ g_pc = "collected"
    /\ g_grades # <<>>
    /\ calls = g_calls0
    /\ save_grades([n |-> Len(g_grades), period |-> CurrentPeriod(now), v |-> 1], io)

\* collect_grades returns: True when grades were collected and saved, False
\* when the save failed, and False with the message of a failed collection
\* when grades_data is empty.
collect_grades_return ==
    /\ g_pc = "collected"
    /\ g_grades # <<>> => calls = g_calls0 + 1
    /\ g_pc' = "returned"
    /\ IF g_grades = <<>>
       THEN /\ g_ret' = "False"
            /\ g_log' = Append(g_log, "grade collection failed")
       ELSE IF last_op.ok
            THEN /\ g_ret' = "True"
                 /\ g_log' = Append(g_log, "grade collection done")
            ELSE /\ g_ret' = "False"
                 /\ g_log' = Append(g_log, "saving the grades failed")
    /\ UNCHANGED <<g_env, g_banks, g_should, g_fetched, g_requests, g_grades, g_calls0,
                   g_last>>
    /\ UNCHANGED <<rowVars, bankRowVars, queryVars, fetchVars>>
    /\ UNCHANGED <<crawlVars, reqVars, storeVars, pureVars>>

NextGrades ==
    \/ \E banks \in GradeBankLists :
         g_pc = "idle" /\ calls = 0 /\ save_bank_list(banks, NoFault)
    \/ \E env \in GradeEnvs : collect_grades(env)
    \/ collect_all_grades
    \/ \E i \in 1..MaxBanks, attempts \in 1..grade_retry_count,
          response \in GradeResponses \cup {FailedResponse} :
              g_pc = "fetching" /\ fetch_grade_for_bank(i, attempts, response)
    \/ collect_all_grades_return
    \/ \E write \in {"ok", "open_fails"} :
         collect_grades_save([copy |-> "ok", write |-> write])
    \/ collect_grades_return

----------------------------------------------------------------------------
(* crawler.py: fetch_interest_rates on the three category responses of one *)
(* branch, with the pages parsed by parse_interest_rates.                  *)

\* product_type['name'] of the three product types, in the order requested
product_type_names == <<"yogubul", "geochisik", "jeokripsik">>

\* parse_interest_rates: the products of the rows, in order.
RECURSIVE ParsedRows(_, _)
ParsedRows(rows, product_type) ==
    IF rows = <<>> THEN <<>>
    ELSE parse_product_row(Head(rows), product_type) \o ParsedRows(Tail(rows), product_type)

\* parse_interest_rates(html, bank_info, product_type), on the rows of the
\* table of the page.
parse_interest_rates(rows, product_type) ==
    remove_duplicate_products(ParsedRows(rows, product_type))

\* The rows of the page of category k: a listed product at a rate, with a
\* 12-month term unless the category is the sight deposit.
ListedName(k) ==
    CASE k = 1 -> <<"OnlineJaripYetakgeum">>
      [] k = 2 -> <<"MGTheBankingJeonggiYegeum">>
      [] k = 3 -> <<"MGTheBankingJayuJeokgeum">>
QuoteRow(name, k, rate_text) ==
    IF k = 1 THEN <<name, rate_text>> ELSE <<name, <<"1", "2", "wol">>, rate_text>>
Rate325 == <<"3", ".", "2", "5", "%">>
Rate3 == <<"3", "%">>
Rate0 == <<"0", "%">>

\* The tables tried: no row, one quote, a quote at 0%, the same quote twice,
\* two quotes, one quote written 3% and 3.0%, a product that is not listed.
PageRows(k) ==
    {<<>>,
     <<QuoteRow(ListedName(k), k, Rate325)>>,
     <<QuoteRow(ListedName(k), k, Rate0)>>,
     <<QuoteRow(ListedName(k), k, Rate325), QuoteRow(ListedName(k), k, Rate325)>>,
     <<QuoteRow(ListedName(k), k, Rate325), QuoteRow(ListedName(k), k, Rate3)>>,
     <<QuoteRow(ListedName(k), k, Rate3), QuoteRow(ListedName(k), k, <<"3", ".", "0", "%">>)>>,
     <<QuoteRow(<<"Daechul">>, k, Rate325)>>}

\* What the request of category k comes to: _make_request returns None,
\* raises what it does not catch, or returns a page, whose parsing may raise.
CategoryResponse(kind, rows) == [kind |-> kind, rows |-> rows]
CategoryResponses(k) ==
    {CategoryResponse("None", <<>>), CategoryResponse("raised", <<>>),
     CategoryResponse("parse_error", <<>>)}
    \cup {CategoryResponse("page", rows) : rows \in PageRows(k)}

\* The products one category adds to all_products.
CategoryProducts(responses, k) ==
    IF responses[k].kind = "page"
    THEN parse_interest_rates(responses[k].rows, product_type_names[k])
    ELSE <<>>

\* A worker that gives no record unless every category has a response.
AllOrNothing(bank, responses) ==
    LET all_products == CategoryProducts(responses, 1) \o CategoryProducts(responses, 2)
                        \o CategoryProducts(responses, 3)
        unique_products == _remove_duplicate_products(all_products)
    IN [raised |-> \E k \in 1..3 : responses[k].kind = "raised",
        record |-> IF \A k \in 1..3 : responses[k].kind = "page" /\ unique_products # <<>>
                   THEN <<[bank |-> bank, products |-> unique_products,
                           total_products |-> Len(unique_products)]>>
                   ELSE <<>>]

\* fetch_interest_rates(bank): the worker raises when a request does, else it
\* returns None or the record of the merged and deduplicated products.
FetchedRates(bank, responses) ==
    LET all_products == CategoryProducts(responses, 1) \o CategoryProducts(responses, 2)
                        \o CategoryProducts(responses, 3)
        unique_products == _remove_duplicate_products(all_products)
    IN IF \E k \in 1..3 : responses[k].kind = "raised"
       THEN [raised |-> TRUE, record |-> <<>>]
       ELSE [raised |-> FALSE,
             record |-> IF unique_products # <<>>
                        THEN <<[bank |-> bank, products |-> unique_products,
                                total_products |-> Len(unique_products)]>>
                        ELSE <<>>]

NoFetchInput == [bank |-> "-", responses |-> <<>>]
NoFetchResult == [called |-> FALSE, raised |-> FALSE, record |-> <<>>]

InitFetch ==
    /\ fr_in = NoFetchInput
    /\ fr_out = NoFetchResult

\* One future of stage 2: executor.submit(self.fetch_interest_rates, bank).
call_fetch_interest_rates(bank, responses) ==
    /\ fr_in' = [bank |-> bank, responses |-> responses]
    /\ fr_out' = [called |-> TRUE,
                  raised |-> FetchedRates(bank, responses).raised,
                  record |-> FetchedRates(bank, responses).record]
    /\ UNCHANGED <<rowVars, bankRowVars, queryVars, gradeVars>>
    /\ UNCHANGED <<crawlVars, reqVars, storeVars, pureVars>>

NextFetch ==
    \/ ~fr_out.called
       /\ \E bank \in BranchCodes, r1 \in CategoryResponses(1),
             r2 \in CategoryResponses(2), r3 \in CategoryResponses(3) :
            call_fetch_interest_rates(bank, <<r1, r2, r3>>)

----------------------------------------------------------------------------
(* The specifications.                                                     *)

InitSide == InitRows /\ InitBankRows /\ InitQuery /\ InitGrades /\ InitFetch

Init == InitCrawl /\ InitRequest /\ InitStore /\ InitPure /\ InitSide

Spec == Init /\ [][NextCrawl]_vars
SpecRequest == Init /\ [][NextRequest]_vars
SpecStore == Init /\ [][NextStore]_vars
SpecBanks == Init /\ [][NextBanks]_vars
SpecSummary == Init /\ [][NextSummary]_vars
SpecNames == Init /\ [][NextNames]_vars
SpecDedup == Init /\ [][NextDedup]_vars
SpecRows == Init /\ [][NextRows]_vars
SpecBankRows == Init /\ [][NextBankRows]_vars
SpecQuery == Init /\ [][NextQuery]_vars
SpecGrades == Init /\ [][NextGrades]_vars
SpecFetch == Init /\ [][NextFetch]_vars
SpecRerun == Init /\ [][NextRerun]_vars
SpecRates == Init /\ [][NextRates]_vars

----------------------------------------------------------------------------
(* Properties.                                                             *)

\* A fault-free save that replaced the content of an existing file.
Overwrote(op) ==
    /\ last_op.op = op
    /\ last_op.io = NoFault
    /\ last_op.overwrote

PriorInBackups == \E b \in backup_dir : b.doc = last_op.prior

\* C1: when save_daily_rates, run again for a date whose snapshot exists
\* (plain or compressed, of any age), has overwritten the snapshot, the
\* backup directory holds a copy with the content the snapshot had before.
C1_PriorSnapshotBackedUp ==
    Overwrote("save_daily_rates") => PriorInBackups

\* Branches returned by the stage-1 workers, and rate records they emitted.
BranchesReturned == SumSeq([t \in Targets |-> Len(fut1[t].banks)])
RecordsEmitted == Cardinality({i \in DOMAIN fut2 : fut2[i].outcome = "rates"
                                                 /\ fut2[i].st \in {"done", "taken"}})

\* C2: no update of the shared statistics is lost: once stage 1 is over
\* banks_fetched is the number of branches the discovery workers returned,
\* once stage 2 is over rates_fetched is the number of records emitted, and
\* every error a worker appended is in the error list.
C2_NoLostUpdate ==
    /\ pc \in {"stage2", "done"} => banks_fetched = BranchesReturned
    /\ pc = "done" => rates_fetched = RecordsEmitted
    /\ \A t \in Targets : fut1[t].outcome = "parse_error" =>
         \E k \in 1..Len(errors) : errors[k].target = t /\ errors[k].cause = "parse"

\* C3: no two branches of the persisted branch list share a code.
C3_PersistedCodesUnique ==
    bank_list_file.exists =>
        \A i, j \in 1..Len(bank_list_file.doc.banks) :
            i # j => bank_list_file.doc.banks[i].gmgoCd # bank_list_file.doc.banks[j].gmgoCd

\* C3 witness: a list with the same code under two targets was saved.
C3_Witness ==
    /\ last_op.op = "save_bank_list"
    /\ last_op.ok
    /\ last_op.dup_input
    /\ \E i, j \in 1..Len(bank_list_file.doc.banks) :
         bank_list_file.doc.banks[i].city # bank_list_file.doc.banks[j].city

\* C4: the rate list run() returns holds at most one record per branch code.
C4_OneRecordPerBranch ==
    result.returned =>
        \A i, j \in 1..Len(result.rates) :
            i # j => result.rates[i].bank.gmgoCd # result.rates[j].bank.gmgoCd

\* C5: once stage 1 is over, every target whose discovery failed (no
\* response after the retries, or a parse failure) has an entry in the
\* error list naming the target.
C5_FailedTargetsRecorded ==
    pc \in {"stage2", "done"} =>
        \A t \in Targets :
            fut1[t].outcome \in {"no_response", "parse_error"} =>
                \E k \in 1..Len(errors) : errors[k].target = t

\* C6: the run aborts after stage 1 exactly when the aggregate branch list is
\* empty: then no stage-2 future exists (no rate request is issued) and
\* run() returns ([], []); otherwise every branch is handed to stage 2 and
\* run() returns the branch list with the rates collected.
C6_Stage1Gate ==
    /\ (pc \in {"stage2", "done"} /\ all_banks = <<>>) =>
         /\ pc = "done"
         /\ fut2 = <<>>
         /\ result = Returned(<<>>, <<>>)
    /\ (pc \in {"stage2", "done"} /\ all_banks # <<>>) =>
         /\ DOMAIN fut2 = DOMAIN all_banks
         /\ pc = "done" => /\ result = Returned(all_banks, all_rates)
                           /\ \A i \in DOMAIN fut2 : fut2[i].st = "taken"
    /\ (\E i \in DOMAIN fut2 : fut2[i].st # "queued") => all_banks # <<>>

\* C6 witness: every target failed or listed nothing, and the run is over.
C6_Witness ==
    /\ pc = "done"
    /\ all_banks = <<>>
    /\ result.returned
    /\ \E t \in Targets : fut1[t].outcome = "no_response"
    /\ \E t \in Targets : fut1[t].outcome = "banks"

\* C7: while a stage-1 worker is queued or running no stage-2 future exists,
\* so no rate request has started.
C7_HardBarrier ==
    (\E t \in Targets : fut1[t].st # "taken") => fut2 = <<>>

\* C7 witness: a rate request is in flight after two discovery workers ran
\* side by side.
C7_Witness ==
    /\ \E i \in DOMAIN fut2 : fut2[i].st = "adding"
    /\ \A t \in Targets : fut1[t].outcome = "banks"
    /\ banks_fetched < BranchesReturned

\* An attempt fails when it raises a RequestException or its status is 4xx/5xx.
AttemptFailed(o) ==
    \/ o.kind = "RequestException"
    \/ o.kind = "response" /\ o.status \in 400..599

\* The claim's notion: a transport error or any status that is not 2xx.
AttemptNot2xx(o) ==
    \/ o.kind = "RequestException"
    \/ o.kind = "response" /\ o.status \notin 200..299

\* The retry discipline of _make_request for a given notion of failure.
RetryDiscipline(Failed(_)) ==
    /\ Len(rq_log) <= rq_max
    /\ \A k \in 1..Len(rq_log) : k < Len(rq_log) => Failed(rq_log[k])
    /\ rq_sleeps = [k \in 1..Len(rq_sleeps) |-> retry_delay * k]
    /\ Len(rq_sleeps) = Cardinality({k \in 1..Len(rq_log) :
                                       Failed(rq_log[k]) /\ k < rq_max})
    /\ rq_pc = "attempt" => Len(rq_sleeps) = Len(rq_log)
    /\ (rq_pc = "returned" /\ rq_result.kind = "response") =>
         /\ rq_result = rq_log[Len(rq_log)]
         /\ ~Failed(rq_result)
    /\ (rq_pc = "returned" /\ rq_result.kind = "None") =>
         /\ Len(rq_log) = rq_max
         /\ rq_max > 0 => Failed(rq_log[rq_max]) /\ Len(rq_sleeps) = rq_max - 1

C10_BackupBeforeEveryOverwrite ==
    \A op \in {"save_bank_list", "save_daily_rates", "save_summary", "save_grades"} :
        Overwrote(op) => PriorInBackups

\* C11: when a save operation whose _create_backup copied a file returns,
\* every entry of the backup directory has a modification time inside the
\* retention window of days_to_keep days: none is older than the cutoff.
C11_BackupsInsideWindow ==
    [][(calls' = calls + 1 /\ last_op'.copied) =>
         \A b \in backup_dir' : b.mtime >= now' - days_to_keep]_vars

\* C11 witness: a backup was copied and the pruning that followed unlinked an
\* entry older than the window, here the copy itself, which carries the
\* modification time of its source.
C11_Witness ==
    /\ last_op.copied
    /\ last_op.overwrote
    /\ now > days_to_keep
    /\ backup_dir = {}

\* The files of one date that hold a complete snapshot.
SnapshotsOf(d) ==
    {rates_dir[p].doc : p \in {q \in RatePaths : q.date = d /\ rates_dir[q].exists
                                                 /\ rates_dir[q].doc.kind = "rates"}}

\* C12: after successful save_daily_rates calls for a date, whatever the
\* record counts, get_rates_by_date(date) returns the data of the most
\* recent save for that date.
C12_LastWriteWins ==
    \A d \in Dates :
        (last_op.op = "save_daily_rates" /\ last_op.ok /\ SnapshotsOf(d) # {}) =>
            /\ get_rates_by_date(d) \in SnapshotsOf(d)
            /\ \A doc \in SnapshotsOf(d) : doc.v <= get_rates_by_date(d).v

\* Every snapshot file of the store.
SnapshotFiles ==
    {bank_list_file, summary_file} \cup {rates_dir[p] : p \in RatePaths}
    \cup {grades_dir[p] : p \in Periods}

\* C13: after a save operation that was interrupted, no snapshot file is
\* partial: each path holds the complete prior or the complete new content.
C13_NoPartialFile ==
    last_op.io.write = "interrupted" =>
        \A f \in SnapshotFiles : f.exists => f.doc.kind # "partial"

\* C14: a save operation whose backup copy or whose write hit an I/O error
\* returns a failure result to its caller and has not overwritten its target.
C14_FailureReportedNoOverwrite ==
    (last_op.copy_failed \/ last_op.io.write \in {"open_fails", "dump_fails"}) =>
        /\ ~last_op.ok
        /\ ~last_op.overwrote

\* C15: the snapshot store is written by the main thread only, after both
\* stages: while run() has not returned no file of the store has been
\* touched, and whenever a save has run no stage-1 or stage-2 worker is
\* queued or running.
C15_StoreWrittenAfterStages ==
    /\ pc \in {"init", "stage1", "stage2"} =>
         /\ calls = 0
         /\ last_op = NoOp
         /\ bank_list_file = NoFile
         /\ summary_file = NoFile
         /\ \A p \in RatePaths : rates_dir[p] = NoFile
         /\ backup_dir = {}
    /\ calls > 0 =>
         /\ \A t \in DOMAIN fut1 : fut1[t].st = "taken"
         /\ \A i \in DOMAIN fut2 : fut2[i].st = "taken"

\* C15 witness: save_all has written the three files after a run whose
\* stage 2 had several workers.
C15_Witness ==
    /\ calls = 3
    /\ bank_list_file.exists
    /\ summary_file.exists
    /\ \E p \in RatePaths : rates_dir[p].exists
    /\ Len(fut2) >= 2

\* C16: on every path a run that has ended has emitted the end-of-run
\* statistics: the counts of branches, rate records and errors, and the
\* error list cut to its first ErrorsShown entries.
C16_EndsWithStatistics ==
    pc = "exit" =>
        \E k \in 1..Len(log) :
            /\ log[k].kind = "statistics"
            /\ log[k].n_errors = Len(errors)
            /\ Len(log[k].shown) <= ErrorsShown

\* The branch lists the stage-1 workers returned, joined in the order the
\* targets were submitted.
RECURSIVE InSubmissionOrder(_)
InSubmissionOrder(n) ==
    IF n = 0 THEN <<>> ELSE InSubmissionOrder(n - 1) \o fut1[n].banks

RecordsOf(banks) == {banks[k] : k \in 1..Len(banks)}

\* C17: for given discovery responses the persisted branch list holds the
\* same set of branch records, region included, whatever the order in which
\* the stage-1 workers complete: the set it holds when they complete in the
\* order of submission.
C17_CompletionOrderInsensitive ==
    (last_op.op = "save_bank_list" /\ last_op.ok /\ pc \in {"done", "exit"}) =>
        RecordsOf(bank_list_file.doc.banks) =
            RecordsOf(_remove_duplicate_banks(InSubmissionOrder(NTargets)))

\* The text made of d copies of a chunk.
RECURSIVE RepeatOf(_, _)
RepeatOf(chunk, d) == IF d = 0 THEN <<>> ELSE chunk \o RepeatOf(chunk, d - 1)

\* The chunks a text is 2, 3 or 4 copies of.
RepeatedChunks(text) ==
    {SubSeq(text, 1, n) : n \in {m \in 1..Len(text) :
        \E d \in {2, 3, 4} : RepeatOf(SubSeq(text, 1, m), d) = text}}

\* C18: a name made of 2, 3 or 4 copies of a non-empty chunk C collapses to
\* C under _remove_duplicates; any other name is returned unchanged.
C18_CollapsesToChunk ==
    name_in # NoText =>
        /\ \A chunk \in RepeatedChunks(name_in) : name_out = chunk
        /\ RepeatedChunks(name_in) = {} => name_out = name_in

ProductFns == {"crawler._remove_duplicate_products", "parser.remove_duplicate_products"}

SameKey(p, q) ==
    /\ p.product_name = q.product_name
    /\ p.duration_months = q.duration_months
    /\ p.interest_rate = q.interest_rate
    /\ p.product_type = q.product_type

\* C19: after the deduplication of the quotes of a branch no two products
\* share the key (product name, duration, rate, category).
C19_ProductKeysUnique ==
    dedup_out.fn \in ProductFns =>
        \A i, j \in 1..Len(dedup_out.unique) :
            i # j => ~SameKey(dedup_out.unique[i], dedup_out.unique[j])

\* C19 witness: the list had two rows of one key that differ outside the key.
C19_Witness ==
    /\ dedup_out.fn = "crawler._remove_duplicate_products"
    /\ \E i, j \in 1..Len(dedup_in) :
         /\ i # j
         /\ SameKey(dedup_in[i], dedup_in[j])
         /\ dedup_in[i] # dedup_in[j]
    /\ Len(dedup_out.unique) = 2

\* The records of s at the indices of keep, in the order of s.
RECURSIVE Pick(_, _, _)
Pick(s, keep, n) ==
    IF n = 0 THEN <<>>
    ELSE IF n \in keep THEN Append(Pick(s, keep, n - 1), s[n])
    ELSE Pick(s, keep, n - 1)

\* The first occurrence of each product key, and of each branch code.
FirstProducts(s) ==
    Pick(s, {i \in 1..Len(s) : \A j \in 1..(i - 1) : ~SameKey(s[j], s[i])}, Len(s))
FirstBanks(s) ==
    Pick(s, {i \in 1..Len(s) : \A j \in 1..(i - 1) : s[j].gmgoCd # s[i].gmgoCd}, Len(s))
Coded(s) == Pick(s, {i \in 1..Len(s) : s[i].gmgoCd # ""}, Len(s))

\* A second pass of the deduplicator that was called, over its own output.
SecondPass ==
    CASE dedup_out.fn = "crawler._remove_duplicate_products" ->
           _remove_duplicate_products(dedup_out.unique)
      [] dedup_out.fn = "parser.remove_duplicate_products" ->
           remove_duplicate_products(dedup_out.unique)
      [] dedup_out.fn = "storage._remove_duplicate_banks" ->
           _remove_duplicate_banks(dedup_out.unique)
      [] OTHER -> dedup_out.unique

C21_SightDepositDurationZero ==
    (row_out.called /\ row_in.product_type = "yogubul" /\ row_out.product # <<>>)
        => row_out.product[1].duration_months = 0

\* A sight-deposit quote from a row whose second-to-last cell holds a number.
C21_Witness ==
    /\ row_out.called
    /\ row_in.product_type = "yogubul"
    /\ row_out.product # <<>>
    /\ Len(row_in.cells) = 3
    /\ FirstDigit(row_in.cells[2]) # 0
    /\ ToInt(SubSeq(row_in.cells[2], FirstDigit(row_in.cells[2]),
                    FirstDigit(row_in.cells[2]))) > 0

\* The number a decimal text without sign stands for is positive: one of its
\* digits before the first character that is neither digit nor point, from
\* the first digit on, is not 0.
HasPositiveDigit(text) ==
    \E k \in 1..Len(text) : IsDigit(text[k]) /\ text[k] # "0"

\* C22: every quote returned has rate > 0, and every term-deposit or
\* installment-deposit quote also has duration > 0; a row whose rate text is
\* "0%" yields no record for any product type.
C22_ValidityPolicy ==
    row_out.called =>
        /\ row_out.product # <<>> =>
              /\ row_out.product[1].interest_rate.n > 0
              /\ HasPositiveDigit(row_out.product[1].rate_text)
              /\ row_in.product_type # "yogubul" =>
                    /\ row_out.product[1].duration_months > 0
                    /\ HasPositiveDigit(row_out.product[1].duration_text)
        /\ (Len(row_in.cells) >= 2 /\ row_in.cells[Len(row_in.cells)] = <<"0", "%">>)
              => row_out.product = <<>>

\* A listed term-deposit product at a positive rate whose duration is 0 is
\* dropped, and one whose rate text is "0%" is dropped.
C22_Witness ==
    /\ row_out.called
    /\ row_in.product_type = "geochisik"
    /\ row_in.cells = <<<<"MGTheBankingJeonggiYegeum">>, <<"0", "wol">>, <<"3", "%">>>>
    /\ row_out.product = <<>>

\* The listed fields a row carries in hidden spans.
FieldsPresent(row) ==
    {row.spans[i].title : i \in 1..Len(row.spans)} \cap DOMAIN field_mapping

\* A leading code of five digits and, right behind it, a run of syllables.
CodeThenName(text) ==
    /\ Len(text) >= 6
    /\ \A k \in 1..5 : IsDigit(text[k])
    /\ text[6] \in Syllables

\* C23: a row that lacks five or more of the six hidden fields never matches
\* the hidden-span strategy; the text strategy is then tried, and it yields a
\* branch only if the row's text starts with a 5-digit code immediately
\* followed by a name.
C23_FallbackOnMissingFields ==
    (brow_out.called /\ Cardinality(FieldsPresent(brow_in)) <= 1) =>
        /\ brow_out.strategy # "hidden_spans"
        /\ brow_out.text_tried
        /\ brow_out.banks # <<>> =>
              /\ brow_out.strategy = "text"
              /\ CodeThenName(full_text(brow_in))
              /\ brow_out.banks[1]["gmgoCd"] = SubSeq(full_text(brow_in), 1, 5)

\* A row of five hidden spans, one of them listed, parsed by the text
\* strategy.
C23_Witness ==
    /\ brow_out.called
    /\ Len(brow_in.spans) >= 5
    /\ Cardinality(FieldsPresent(brow_in)) = 1
    /\ brow_out.strategy = "text"
    /\ brow_out.banks # <<>>

\* C24: every branch parse_bank_list returns, through either strategy, has a
\* code of five digits and a non-empty name.
C24_ValidCodeAndName ==
    (brow_out.called /\ brow_out.banks # <<>>) =>
        LET bank == brow_out.banks[1]
        IN /\ "gmgoCd" \in DOMAIN bank
           /\ Len(bank["gmgoCd"]) = 5
           /\ \A k \in 1..5 : IsDigit(bank["gmgoCd"][k])
           /\ "name" \in DOMAIN bank
           /\ bank["name"] # <<>>

\* The rate-snapshot files of a directory whose name gives a calendar date,
\* and the day number of that date.
IsSnapshotName(f) == EndsWith(f, DotJson) \/ EndsWith(f, DotJsonGz)
DatedFiles(dir) == {f \in dir : IsSnapshotName(f) /\ strptime(date_str_of(f)) # <<>>}
DayOf(f) == toordinal(strptime(date_str_of(f))[1])

TodayFile == Dated(<<"0", "7">>, <<"0", "1">>) \o DotJson
TenDaysAgoFile == Dated(<<"0", "6">>, <<"2", "1">>) \o DotJsonGz
FortyDaysAgoFile == Dated(<<"0", "5">>, <<"2", "2">>) \o DotJson

\* C25: cleanup_old_data(days) removes exactly the rate-snapshot files whose
\* filename date is older than now minus days (those whose unlink did not
\* fail) and returns the number of files removed; files dated within the
\* window and files whose name is not date-shaped are never deleted. With
\* files dated today, 10 days ago and 40 days ago and days = 30, only the
\* 40-day-old file is removed and the count is 1.
C25_CleanupRemovesOldOnly ==
    query_out.op = "cleanup_old_data" =>
        LET removed == query_out.before \ listing
        IN /\ listing \subseteq query_out.before
           /\ query_out.count = Cardinality(removed)
           /\ \A f \in query_out.before :
                 f \in removed <=>
                     /\ f \in DatedFiles(query_out.before)
                     /\ Today(query_out.at) - DayOf(f) >= query_out.days
                     /\ f \notin query_out.unlink_fails
           /\ (/\ query_out.before = {TodayFile, TenDaysAgoFile, FortyDaysAgoFile}
               /\ query_out.at = 0
               /\ query_out.days = 30
               /\ query_out.unlink_fails = {})
                 => (removed = {FortyDaysAgoFile} /\ query_out.count = 1)

\* The cleanup with 30 days of a directory that holds, among others, the
\* files of today, of 10 days ago and of 40 days ago, a file that is exactly
\* 30 days old and a file whose name is no date.
C25_Witness ==
    /\ query_out.op = "cleanup_old_data"
    /\ query_out.at = 0
    /\ query_out.days = 30
    /\ query_out.unlink_fails = {}
    /\ {TodayFile, TenDaysAgoFile, FortyDaysAgoFile,
        Dated(<<"6">>, <<"1">>) \o DotJson,
        <<"n", "o", "t", "e", "s">> \o DotJson} \subseteq query_out.before
    /\ query_out.count = 2
    /\ TodayFile \in listing
    /\ TenDaysAgoFile \in listing
    /\ <<"n", "o", "t", "e", "s">> \o DotJson \in listing

\* C26: get_latest_rates returns the record of the greatest date among the
\* dated snapshot files of the rates directory, for any mix of plain,
\* compressed and non-date-named files in the directory.
C26_LatestIsGreatestDate ==
    (query_out.op = "get_latest_rates" /\ DatedFiles(query_out.before) # {}) =>
        /\ query_out.latest # <<>>
        /\ query_out.latest[1] \in DatedFiles(query_out.before)
        /\ \A g \in DatedFiles(query_out.before) : DayOf(g) <= DayOf(query_out.latest[1])

\* C27: list_available_dates returns only names that parse as a calendar
\* date, one for each such file of the directory, sorted descending (latest
\* date first), for any contents of the rates directory.
C27_DatesSortedDescending ==
    query_out.op = "list_available_dates" =>
        LET dates == query_out.dates
        IN /\ \A i \in 1..Len(dates) : strptime(dates[i]) # <<>>
           /\ {dates[i] : i \in 1..Len(dates)}
                 = {date_str_of(f) : f \in DatedFiles(query_out.before)}
           /\ \A i, j \in 1..Len(dates) :
                 i < j => toordinal(strptime(dates[i])[1])
                          >= toordinal(strptime(dates[j])[1])

\* The entries of the summary file, and those it held before the last save.
SummaryEntries == summary_file.doc.entries
PriorEntries == last_op.prior.entries
NewEntry == [date |-> last_op.date, v |-> calls]

\* C28 as stated: after save_summary(date) the stored mapping holds the new
\* date's entry, every earlier entry not older than the 90-day cutoff
\* unchanged, and no entry older than the cutoff.
C28_MergedThenPruned ==
    (last_op.op = "save_summary" /\ last_op.ok) =>
        /\ NewEntry \in SummaryEntries
        /\ \A e \in PriorEntries :
              (e.date # last_op.date /\ e.date + summary_days > summary_file.mtime)
                  => e \in SummaryEntries
        /\ \A e \in SummaryEntries : e.date + summary_days > summary_file.mtime

\* C28 as amended: the new date's entry is held unless that date is itself
\* older than the cutoff; the mapping holds nothing else than the new entry
\* and the earlier entries of other dates, of which exactly those not older
\* than the cutoff are kept, unchanged.
C28_MergedThenPrunedNewToo ==
    (last_op.op = "save_summary" /\ last_op.ok) =>
        /\ NewEntry \in SummaryEntries
              <=> last_op.date + summary_days > summary_file.mtime
        /\ \A e \in PriorEntries :
              (e.date # last_op.date /\ e.date + summary_days > summary_file.mtime)
                  => e \in SummaryEntries
        /\ \A e \in SummaryEntries : e.date + summary_days > summary_file.mtime
        /\ SummaryEntries \subseteq PriorEntries \cup {NewEntry}
        /\ \A e \in SummaryEntries : e.date = last_op.date => e = NewEntry

\* A save that keeps its own entry and an earlier one and prunes another
\* earlier one, which was inside the window when it was saved.
C28_Witness ==
    /\ last_op.op = "save_summary"
    /\ last_op.ok
    /\ NewEntry \in SummaryEntries
    /\ \E e \in PriorEntries : e.date # last_op.date /\ e \notin SummaryEntries
    /\ \E e \in PriorEntries : e.date # last_op.date /\ e \in SummaryEntries

\* The override signal is set: FORCE_GRADE_COLLECTION is 'true' in any case.
OverrideSet(env) == env.force \in {"true", "TRUE"}

\* The month of the run is one of the configured collection months.
InWindow(env) ==
    env.current_month \in {env.collection_month.months[k] :
                              k \in 1..Len(env.collection_month.months)}

\* C29: grade collection with the current month outside the collection
\* window and no override set issues no evaluation request and has an empty
\* result, and collect_grades does not report failure.
C29_OutsideWindowIsNoError ==
    (g_pc = "returned" /\ g_should # "-" /\ ~InWindow(g_env) /\ ~OverrideSet(g_env)) =>
        /\ g_requests = 0
        /\ g_grades = <<>>
        /\ g_ret # "False"
        /\ \A k \in 1..Len(g_log) : g_log[k] # "grade collection failed"

\* C30 as stated: with the override signal set, should_collect_grades
\* returns true for every current month and every other configuration value.
C30_OverrideForcesCollection ==
    (g_should # "-" /\ OverrideSet(g_env)) => g_should = "True"

\* C30 as amended: with the override signal set, should_collect_grades
\* returns true for every current month and every collection window exactly
\* when grade collection is enabled in the configuration.
C30_OverrideBypassesMonthGate ==
    (g_should # "-" /\ OverrideSet(g_env)) =>
        (g_should = "True" <=> g_env.enabled)

\* The gate opened by the override in a month outside the window, and
\* requests were posted.
C30_Witness ==
    /\ g_should = "True"
    /\ OverrideSet(g_env)
    /\ g_env.force = "TRUE"
    /\ ~InWindow(g_env)
    /\ g_requests > 0

\* The records of g_grades that belong to branch code c.
GradesOf(c) == {k \in DOMAIN g_grades : g_grades[k].gmgo_cd = c}

\* C31: collect_all_grades holds at most one record for each input branch,
\* every record carries the configured evaluation year and month, and the
\* record of the branch fetched last is built from the first match of the
\* pattern in the payload it received (none when there is no match).
C31_OneRecordPerBranchFromFirstMatch ==
    /\ \A i \in DOMAIN g_banks :
           Cardinality(GradesOf(g_banks[i].gmgoCd))
               <= Cardinality({j \in DOMAIN g_banks : g_banks[j].gmgoCd = g_banks[i].gmgoCd})
    /\ Len(g_grades) <= Cardinality(g_fetched)
    /\ \A k \in DOMAIN g_grades :
           /\ g_grades[k].evaluation_year = g_env.evaluation_year
           /\ g_grades[k].evaluation_month = g_env.evaluation_month
    /\ g_last.bank # 0 =>
           LET payload == g_last.response.value
               matches == findall(payload, 1)
               mine == GradesOf(g_banks[g_last.bank].gmgoCd)
           IN IF g_last.response.received /\ g_last.response.input /\ matches # <<>>
              THEN /\ Cardinality(mine) = 1
                   /\ \A k \in mine :
                          /\ g_grades[k].evaluation_agency = strip(matches[1].agency)
                          /\ g_grades[k].evaluation_date = matches[1].date
                          /\ g_grades[k].grade_code = matches[1].grade
              ELSE mine = {}

\* Two branches each gave a record, the last from a payload with two
\* different evaluations.
C31_Witness ==
    /\ g_pc = "collected"
    /\ Len(g_grades) = 2
    /\ g_last.bank # 0
    /\ Len(findall(g_last.response.value, 1)) = 2
    /\ findall(g_last.response.value, 1)[1] # findall(g_last.response.value, 1)[2]
    /\ g_grades[2].evaluation_agency = <<"B">>
    /\ g_grades[2].grade_code = "4"

\* The documents of the branch-list file, the daily rate files and the grade
\* files that a save wrote completely.
PersistedDocs ==
    {f.doc : f \in {g \in {bank_list_file} \cup {rates_dir[p] : p \in DOMAIN rates_dir}
                                    \cup {grades_dir[p] : p \in DOMAIN grades_dir} :
                        g.exists /\ g.doc.kind \in {"banks", "rates", "grades"}}}

\* C32: every persisted rate, branch and grade file carries a collection
\* timestamp and a schema version field.
C32_TimestampAndVersion ==
    \A doc \in PersistedDocs : doc.crawled_at >= 0 /\ doc.version # "-"

\* The number of futures of f that ended in the given outcome.
CountOutcome(f, outcome) == Cardinality({k \in DOMAIN f : f[k].outcome = outcome})

\* The results of the workers of f that did not raise: how many there are,
\* and that each is in the aggregate list.
Aggregated(f, list) ==
    /\ Len(list) = SumSeq([k \in 1..Len(f) |-> Len(f[k].banks)])
    /\ \A k \in DOMAIN f : \A j \in DOMAIN f[k].banks :
           \E m \in DOMAIN list : list[m] = f[k].banks[j]

\* C33: no worker that raised aborts its stage. Once stage 1 is over every
\* stage-1 future was taken and the branches of all workers that did not
\* raise are in the aggregate list; a run with branches ends only after every
\* stage-2 future was taken, with the records of all workers that did not
\* raise, and returns both lists; each worker that raised left one entry in
\* the error list.
C33_WorkerFailureDoesNotAbort ==
    /\ pc \in {"stage2", "done"} =>
           /\ Stage1Joined(fut1)
           /\ Aggregated(fut1, all_banks)
    /\ (pc = "done" /\ all_banks # <<>>) =>
           /\ Stage2Joined(fut2)
           /\ Aggregated(fut2, all_rates)
           /\ result = Returned(all_banks, all_rates)
    /\ pc = "done" =>
           Cardinality({k \in DOMAIN errors : errors[k].cause = "exception"})
               = CountOutcome(fut1, "raised") + CountOutcome(fut2, "raised")

\* A run is over in which a stage-1 worker and a stage-2 worker raised while
\* the other workers of their stages gave branches and a rate record.
C33_Witness ==
    /\ pc = "done"
    /\ CountOutcome(fut1, "raised") = 1
    /\ CountOutcome(fut2, "raised") = 1
    /\ Len(all_banks) = 2
    /\ Len(all_rates) = 1
    /\ result = Returned(all_banks, all_rates)

\* The valid quotes among the category responses of the call: the products
\* parse_product_row returns for the rows of the pages received.
ValidQuotes ==
    UNION {{parse_product_row(fr_in.responses[k].rows[j], product_type_names[k])[1] :
               j \in {i \in DOMAIN fr_in.responses[k].rows :
                         parse_product_row(fr_in.responses[k].rows[i],
                                           product_type_names[k]) # <<>>}} :
           k \in {c \in DOMAIN fr_in.responses : fr_in.responses[c].kind = "page"}}

\* The products of the record emitted.
Emitted ==
    IF fr_out.record = <<>> THEN {}
    ELSE {fr_out.record[1].products[j] : j \in DOMAIN fr_out.record[1].products}

\* The record holds one product for each valid quote, up to the key of the
\* deduplication, and no other product.
QuotesKept ==
    /\ Emitted \subseteq ValidQuotes
    /\ {ProductKey(p) : p \in Emitted} = {ProductKey(p) : p \in ValidQuotes}

\* Every record emitted counts its products, and has one at least.
CountsItsProducts ==
    \A j \in DOMAIN fr_out.record :
        /\ fr_out.record[j].total_products = Len(fr_out.record[j].products)
        /\ fr_out.record[j].total_products >= 1

SavedWhole(file, kind) == file.exists /\ file.doc.kind = kind

\* C35: run_crawler returns success, and the process exits with 0, only if
\* stage 1 found a branch and every save attempted for the run succeeded.
C35_ExitCodeReflectsSuccess ==
    (pc = "exit" /\ exit_code = 0) =>
        /\ result.banks # <<>>
        /\ SavedWhole(bank_list_file, "banks")
        /\ result.rates # <<>> =>
               /\ \E p \in DOMAIN rates_dir : SavedWhole(rates_dir[p], "rates")
               /\ SavedWhole(summary_file, "summary")

\* The run has started and has not returned a branch: it is in progress, or
\* it aborted because stage 1 found none.
NoBranchReturned == pc # "init" /\ ~(result.returned /\ result.banks # <<>>)

\* C36: no step of a run that aborts because stage 1 found no branch changes
\* the store: from the start of the run to its exit the branch-list file,
\* the daily rate files, the summary and the backup directory stay as they
\* were.
C36_AbortLeavesStoreUnchanged ==
    [][NoBranchReturned =>
           UNCHANGED <<bank_list_file, rates_dir, summary_file, backup_dir>>]_vars

\* A run over a store filled four days earlier aborted and exited with 1;
\* the snapshot that a cleanup would unlink is still there.
C36_Witness ==
    /\ pc = "exit"
    /\ exit_code = 1
    /\ result = Returned(<<>>, <<>>)
    /\ now > 3
    /\ rates_dir[[date |-> 0, ext |-> "json"]].exists
    /\ bank_list_file.exists
    /\ summary_file.exists

\* C37: the rates directory never holds both the plain and the compressed
\* snapshot of one date, and list_available_dates lists no date twice.
C37_OneSnapshotPerDate ==
    /\ \A d \in Dates : ~(/\ rates_dir[[date |-> d, ext |-> "json"]].exists
                          /\ rates_dir[[date |-> d, ext |-> "json.gz"]].exists)
    /\ \A i, j \in DOMAIN dates_listed(rates_dir, MaxClock) :
           i # j => dates_listed(rates_dir, MaxClock)[i] # dates_listed(rates_dir, MaxClock)[j]
====
